---- MODULE Spec2Model ----
(***************************************************************************)
(* Verification model of the per-session orchestration kernel of           *)
(* robot_core: the Consumed-Event Set, the Task Manager, the session actor *)
(* with its workflow loop, the MCP elicitation handler and the Session     *)
(* Manager's dispatch.                                                     *)
(*                                                                         *)
(* The module holds several specifications over one set of variables; each *)
(* specification moves only the variables of the component it exercises:   *)
(*   SpecCE  the Consumed-Event Set used by concurrent callers             *)
(*   SpecTM  one Task Manager used by concurrent threads                   *)
(*   Spec    one session: front-end, input bus, actor, background tasks,   *)
(*           elicitation handlers                                          *)
(*   SpecSM  the Session Manager's dispatch with concurrent dispatchers    *)
(***************************************************************************)
EXTENDS Integers, Sequences, FiniteSets, TLC

VARIABLES
    consumed,      \* utils::CONSUMED_EVENTS, the set of consumed event ids
    ceMarked,      \* history: ids marked at least once (SpecCE)
    ceRets         \* history: per id, results of the checks since its last mark

ceVars == <<consumed, ceMarked, ceRets>>

VARIABLES
    tasks,         \* TaskManager::tasks, task id -> [ordinal]
    counter,       \* TaskManager::counter (AtomicU64)
    aborted,       \* task ids whose JoinHandle::abort() has been called
    tmPc,          \* SpecTM: per thread, "idle" or "adding" (inside add_task)
    tmLocal,       \* SpecTM: per thread, the id and ordinal add_task holds
    tmIssued,      \* SpecTM: number of task ids (UUIDs) generated so far
    tmListed,      \* SpecTM: ids in the last list_tasks snapshot
    cancelLog,     \* history: per id, the results of cancel_task(id) in call order
    assigned       \* history: the ordinals in the order fetch_add assigned them

tmCore == <<tasks, counter, aborted>>
tmAux == <<tmPc, tmLocal, tmIssued, tmListed, cancelLog, assigned>>
tmVars == <<tmCore, tmAux>>

VARIABLES
    evKind,        \* per event id, the class of its text: "cancel", "json" or "text"
    feNext,        \* the id the front-end gives its next InputEvent
    bus,           \* utils::EVENT_BUS_SENDER: the events broadcast so far, in order
    inbox,         \* RobotSession::inbox
    active,        \* utils::ACTIVE_ELICITATIONS
    pc,            \* where the session actor is
    cur,           \* the event handle_input is working on (0: none)
    pending,       \* RobotSession::pending_execution: <<>> or <<[steps, idx, ctx]>>
    steps,         \* execute_workflow: steps
    idx,           \* execute_workflow: i (1-based)
    ctx,           \* execute_workflow: ctx
    tools,         \* tool catalog the Decision Engine has fetched for the event being planned
    res,           \* StepResult of the foreground step that has just run
    lastOut,       \* the OutputEvent emitted last
    fgActive,      \* history: events whose foreground handling has begun and not returned
    fgBegun,       \* history: events whose foreground handling has begun
    taken,         \* history: events an elicitation handler answered Accept or Cancel with
    resumedAt,     \* history: the plan index the current handling resumed at (0: not resumed)
    lastEnd,       \* how the last finished handle_input ended: "none", "returned" or "failed"
    bgReg,         \* history: background tasks add_task has registered
    callSt,        \* per tool call: "idle", "open", "elicit", "llm" or "cancelled"
    elPos,         \* per call: how much of the bus its handler's receiver has read
    elEv,          \* per call: the event its handler is transforming with the LLM
    elRes,         \* per call: the handler's last answer to the server
    elTotal,       \* elicitations the server has raised so far
    bgSt,          \* per background task: "none", "running", "calling", "finished", "done"
    bgOf,          \* per background task: the event and plan index that spawned it
    bgNext,        \* the next background task id (stands for Uuid::new_v4)
    bgTask         \* execute_workflow: task_id between the spawn and add_task (0: none)

feVars == <<evKind, feNext, bus, inbox>>
actorVars == <<active, pc, cur, pending, steps, idx, ctx, tools, res>>
histVars == <<lastOut, fgActive, fgBegun, taken, resumedAt, bgReg, lastEnd>>
callVars == <<callSt, elPos, elEv, elRes, elTotal>>
bgVars == <<bgSt, bgOf, bgNext, bgTask>>
seVars == <<feVars, actorVars, histVars, callVars, bgVars>>

VARIABLES
    smSessions,    \* SessionManager::sessions: key -> index of the actor holding the receiver
    smWriter,      \* the dispatcher holding the write lock of sessions (0: none)
    smActors,      \* the session actors created so far, with what was sent to each
    smClients,     \* calls of the MCP client factory
    smNextEv,      \* the id of the next event given to dispatch
    smStops,       \* actors that have ended
    smLog,         \* history: the events given to dispatch
    smPath,        \* history: per event, the path on which it was sent
    dPc,           \* per dispatcher: where it is in dispatch
    dEv            \* per dispatcher: its event

smVars == <<smSessions, smWriter, smActors, smClients, smNextEv, smStops, smLog, smPath, dPc, dEv>>
VARIABLES
    service,       \* RmcpStdIoClient::service: the cached connection (0: None)
    connNext,      \* the number the next connection gets
    mPc,           \* per caller: where it is in the operation
    mOp,           \* per caller: the operation
    mTries,        \* history: per caller, the connections its attempts ran on
    mFirst,        \* per caller: the result of its first attempt
    mOut,          \* per caller: what the operation returned
    mOps,          \* operations begun so far
    lock,          \* the caller holding the tokio Mutex around service ("none": free)
    mConn,         \* per caller: the connection its request is in flight on (0: none)
    mElicit        \* per caller: the server's elicitation for its call awaits an answer

mcVars == <<service, connNext, mPc, mOp, mTries, mFirst, mOut, mOps, lock, mConn, mElicit>>

VARIABLES
    prPc,          \* where McpToolStep::run is: "idle", "resolve", "resolved", "call", "called", "failed"
    prIn,          \* McpToolStep::args, the arguments the planner gave the step
    prReq,         \* required_fields(tool)
    prSid,         \* whether ctx.session_id is Some
    prOut,         \* what ParameterResolver::resolve returned
    prArgs,        \* resolved_args as given to MCPClient::call
    prSent         \* CallToolRequestParam::arguments of the request

prVars == <<prPc, prIn, prReq, prSid, prOut, prArgs, prSent>>

VARIABLES
    xBus,          \* the InputEvents sent on utils::EVENT_BUS_SENDER, in order
    hPc,           \* where create_elicitation is: "idle", "waiting", "taken", "answered"
    hSid,          \* RobotClientHandler::session_id ("none": no handler yet)
    hSub,          \* the number of events sent before the handler subscribed
    hPos,          \* the number of events the handler's receiver has passed
    hEv,           \* input_event: the id of the event the loop broke with (0: none)
    hAns           \* what create_elicitation returned

elVars == <<xBus, hPc, hSid, hSub, hPos, hEv, hAns>>

VARIABLES
    wPc,           \* where execute_workflow is: "idle", "loop", "call", "returned"
    wSteps,        \* execute_workflow: steps
    wI,            \* execute_workflow: i (1-based)
    wCtx,          \* execute_workflow: ctx, the Context the foreground steps run on
    wSent,         \* the arguments given to MCPClient::call for the step at i
    wBg,           \* per spawned task: its state, its step's index and ctx_clone
    wNext          \* the number the next spawned task gets

wfVars == <<wPc, wSteps, wI, wCtx, wSent, wBg, wNext>>

VARIABLES
    tcLast,        \* the last call TaskAwareMcpClient::call served: its number, tool, arguments and result
    tcInner        \* the last call handed to the inner MCPClient ("none": no call yet)

tcVars == <<tcLast, tcInner>>

VARIABLES
    smBefore,      \* history: per event, the events whose dispatch had returned when its dispatch began
    smHandled      \* per actor, the events run_inner has received from its inbox, in order

soVars == <<smBefore, smHandled>>

VARIABLES
    cPc,           \* per connection, where its handler's create_elicitation is, or how it returned
    cPos,          \* per connection: the number of events its receiver has passed
    cEv,           \* per connection: input_event, the event its loop broke with (0: none)
    cWith          \* history: per connection, the connections waiting when it took its event

twVars == <<cPc, cPos, cEv, cWith>>
vars == <<ceVars, tmVars, seVars, smVars, mcVars, prVars, elVars, wfVars, tcVars, soVars, twVars>>

(***************************************************************************)
(* Bounds                                                                  *)
(***************************************************************************)
MaxIds == 3        \* event ids used by SpecCE
MaxChecks == 3     \* recorded check results per id between two marks
MaxTasks == 2      \* task ids generated in SpecTM
TMThreads == 2     \* threads calling the Task Manager in SpecTM
MaxCancels == 2    \* recorded cancel_task results per id
MaxEvents == 2     \* InputEvents the front-end creates in Spec
MaxBg == 1         \* background tasks spawned in Spec
MaxElicit == 2     \* elicitations the server raises in Spec
SMThreads == 2     \* concurrent callers of SessionManager::dispatch
MaxDispatch == 3   \* events given to dispatch in SpecSM
MaxStops == 1      \* session actors that end in SpecSM
MaxConns == 3      \* connections opened in SpecMcp
MaxOps == 2        \* operations begun in SpecMcp
MaxCalls == 2      \* calls served by the task-aware client in SpecTC


(***************************************************************************)
(* Consumed-Event Set (utils/mod.rs)                                       *)
(***************************************************************************)
\* mark_event_consumed: HashSet::insert under the mutex.
mark_event_consumed(set, id) == set \cup {id}

\* A check that reports membership but leaves the id in the set.
check_without_remove(set, id) == [ret |-> id \in set, set |-> set]

\* check_and_remove_consumed_event: HashSet::remove under the mutex; the result
\* is whether the id was present.
check_and_remove_consumed_event(set, id) == [ret |-> id \in set, set |-> set \ {id}]

CeIds == 1..MaxIds

CEStart ==
    /\ consumed = {}
    /\ ceMarked = {}
    /\ ceRets = [i \in CeIds |-> <<>>]

\* Some thread calls mark_event_consumed(id).
CEMark(id) ==
    /\ consumed' = mark_event_consumed(consumed, id)
    /\ ceMarked' = ceMarked \cup {id}
    /\ ceRets' = [ceRets EXCEPT ![id] = <<>>]
    /\ UNCHANGED <<tmVars, seVars, smVars, mcVars, prVars, elVars, wfVars, tcVars, soVars, twVars>>

\* Some thread calls check_and_remove_consumed_event(id).
CECheck(id) ==
    /\ Len(ceRets[id]) < MaxChecks
    /\ LET r == check_and_remove_consumed_event(consumed, id)
       IN /\ consumed' = r.set
          /\ ceRets' = [ceRets EXCEPT ![id] = Append(@, r.ret)]
    /\ UNCHANGED ceMarked
    /\ UNCHANGED <<tmVars, seVars, smVars, mcVars, prVars, elVars, wfVars, tcVars, soVars, twVars>>

CENext == \E id \in CeIds : CEMark(id) \/ CECheck(id)

(***************************************************************************)
(* Task Manager (core/tasks/manager.rs)                                    *)
(***************************************************************************)
TaskIds == 1..MaxTasks
Threads == 1..TMThreads

\* A counter read that does not advance the counter.
load_without_add(c) == [old |-> c, new |-> c]

\* AtomicU64::fetch_add(1, SeqCst): returns the old value, stores old + 1.
fetch_add(c) == [old |-> c, new |-> c + 1]

\* add_task, line 56: HashMap::insert under the write lock.
insert_task(ts, id, ordinal) ==
    [x \in DOMAIN ts \cup {id} |-> IF x = id THEN [ordinal |-> ordinal] ELSE ts[x]]

\* remove_task: HashMap::remove under the write lock.
remove_task(ts, id) == [x \in DOMAIN ts \ {id} |-> ts[x]]

\* list_tasks: the ids of the snapshot taken under the read lock; every entry
\* is reported with status "Running".
list_tasks(ts) == DOMAIN ts

\* A cancel that aborts the handle but leaves the entry in the map.
cancel_without_remove(ts, id) ==
    [ret |-> id \in DOMAIN ts, tasks |-> ts,
     abort |-> IF id \in DOMAIN ts THEN {id} ELSE {}]

\* cancel_task: under the write lock, remove the entry; if there was one, abort
\* its handle and return true, else return false.
cancel_task(ts, id) ==
    [ret |-> id \in DOMAIN ts, tasks |-> remove_task(ts, id),
     abort |-> IF id \in DOMAIN ts THEN {id} ELSE {}]

TMStart ==
    /\ tasks = <<>>
    /\ counter = 0
    /\ aborted = {}
    /\ tmPc = [t \in Threads |-> "idle"]
    /\ tmLocal = [t \in Threads |-> [id |-> 0, ordinal |-> 0]]
    /\ tmIssued = 0
    /\ tmListed = {}
    /\ cancelLog = [i \in TaskIds |-> <<>>]
    /\ assigned = <<>>

\* add_task, line 48: the thread takes its ordinal from the atomic counter.
TMAddFetch(t) ==
    /\ tmPc[t] = "idle"
    /\ tmIssued < MaxTasks
    /\ LET f == fetch_add(counter)
       IN /\ counter' = f.new
          /\ tmLocal' = [tmLocal EXCEPT ![t] = [id |-> tmIssued + 1, ordinal |-> f.old + 1]]
          /\ assigned' = Append(assigned, f.old + 1)
    /\ tmIssued' = tmIssued + 1
    /\ tmPc' = [tmPc EXCEPT ![t] = "adding"]
    /\ UNCHANGED <<tasks, aborted, tmListed, cancelLog>>
    /\ UNCHANGED <<ceVars, seVars, smVars, mcVars, prVars, elVars, wfVars, tcVars, soVars, twVars>>

\* add_task, line 56: the thread gets the write lock and inserts its entry.
TMAddInsert(t) ==
    /\ tmPc[t] = "adding"
    /\ tasks' = insert_task(tasks, tmLocal[t].id, tmLocal[t].ordinal)
    /\ tmPc' = [tmPc EXCEPT ![t] = "idle"]
    /\ tmLocal' = [tmLocal EXCEPT ![t] = [id |-> 0, ordinal |-> 0]]
    /\ UNCHANGED <<counter, aborted, tmIssued, tmListed, cancelLog, assigned>>
    /\ UNCHANGED <<ceVars, seVars, smVars, mcVars, prVars, elVars, wfVars, tcVars, soVars, twVars>>

\* A thread calls remove_task(id) for a generated id.
TMRemove(t, id) ==
    /\ tmPc[t] = "idle"
    /\ id <= tmIssued
    /\ tasks' = remove_task(tasks, id)
    /\ UNCHANGED <<counter, aborted, tmPc, tmLocal, tmIssued, tmListed, cancelLog, assigned>>
    /\ UNCHANGED <<ceVars, seVars, smVars, mcVars, prVars, elVars, wfVars, tcVars, soVars, twVars>>

\* A thread calls list_tasks.
TMList(t) ==
    /\ tmPc[t] = "idle"
    /\ tmListed' = list_tasks(tasks)
    /\ UNCHANGED <<tasks, counter, aborted, tmPc, tmLocal, tmIssued, cancelLog, assigned>>
    /\ UNCHANGED <<ceVars, seVars, smVars, mcVars, prVars, elVars, wfVars, tcVars, soVars, twVars>>

\* A thread calls cancel_task(id) for a generated id; the write lock is held
\* from the lookup to the return, so the call is one step.
TMCancel(t, id) ==
    /\ tmPc[t] = "idle"
    /\ id <= tmIssued
    /\ Len(cancelLog[id]) < MaxCancels
    /\ LET c == cancel_task(tasks, id)
       IN /\ tasks' = c.tasks
          /\ aborted' = aborted \cup c.abort
          /\ cancelLog' = [cancelLog EXCEPT ![id] = Append(@, c.ret)]
    /\ UNCHANGED <<counter, tmPc, tmLocal, tmIssued, tmListed, assigned>>
    /\ UNCHANGED <<ceVars, seVars, smVars, mcVars, prVars, elVars, wfVars, tcVars, soVars, twVars>>

TMNext ==
    \E t \in Threads :
        \/ TMAddFetch(t)
        \/ TMAddInsert(t)
        \/ TMList(t)
        \/ \E id \in TaskIds : TMRemove(t, id) \/ TMCancel(t, id)

Trues(log) == {k \in 1..Len(log) : log[k]}

\* C8: cancel_task(id) returns true exactly when the id is registered at the
\* call, which happens at most once per id: that call aborts the handle and
\* removes the entry; every other call returns false and leaves the registry and
\* the handles as they were, whatever the interleaving of the callers.
C8_CancelInv ==
    \A id \in TaskIds :
        /\ Cardinality(Trues(cancelLog[id])) <= 1
        /\ Trues(cancelLog[id]) # {} => (id \notin DOMAIN tasks /\ id \in aborted)
        /\ id \in aborted => Trues(cancelLog[id]) # {}

C8_CancelStep ==
    \A id \in TaskIds :
        cancelLog'[id] # cancelLog[id] =>
            LET ret == cancelLog'[id][Len(cancelLog'[id])]
            IN /\ ret = (id \in DOMAIN tasks)
               /\ id \notin DOMAIN tasks'
               /\ ret => id \in aborted'
               /\ ~ret => (tasks' = tasks /\ aborted' = aborted)

C8_CancelIdempotent == []C8_CancelInv /\ [][C8_CancelStep]_vars

\* A registered task was cancelled and cancel_task was then called on it again.
C8_Witness ==
    \E id \in TaskIds : cancelLog[id] = <<TRUE, FALSE>> /\ DOMAIN tasks # {}

\* C9: the ordinals add_task assigns are strictly increasing in assignment
\* order, so none is reused after a remove or a cancel, and no two registered
\* tasks share an ordinal, also when adds run concurrently.
C9_OrdinalsIncrease ==
    /\ \A i \in 1..Len(assigned) : \A j \in 1..Len(assigned) :
          i < j => assigned[i] < assigned[j]
    /\ \A a \in DOMAIN tasks : \A b \in DOMAIN tasks :
          a # b => tasks[a].ordinal # tasks[b].ordinal
    /\ \A a \in DOMAIN tasks : \E i \in 1..Len(assigned) : assigned[i] = tasks[a].ordinal

\* The first task was registered and cancelled, and the task added after it is
\* registered with the next ordinal.
C9_Witness ==
    /\ cancelLog[1] = <<TRUE>>
    /\ 2 \in DOMAIN tasks /\ tasks[2].ordinal = 2

(***************************************************************************)
(* One session (core/session.rs, mcp/rmcp_client.rs, tentacles)            *)
(***************************************************************************)
Events == 1..MaxEvents
EventKinds == {"cancel", "json", "text"}

\* StepSpec: the built-in steps and Tool { is_background }; "Wait" stands for a
\* WorkflowStep implementation that may return StepStatus::WaitUser.
Step(kind, bg) == [kind |-> kind, is_background |-> bg]
MemoryS == Step("Memory", FALSE)
ProfileS == Step("Profile", FALSE)
RelationshipS == Step("Relationship", FALSE)
ToolS == Step("Tool", FALSE)
ToolBgS == Step("Tool", TRUE)
WaitS == Step("Wait", FALSE)

\* The plans the Decision Engine may return.
Plans == {
    <<>>,
    <<MemoryS, RelationshipS, ToolBgS>>,
    <<MemoryS, WaitS, ProfileS>>,
    <<ToolS, WaitS>>,
    <<ToolBgS, MemoryS>>
}

\* Tool calls in flight: 0 is the foreground call on the persistent connection,
\* k > 0 the call of background task k on its dedicated connection.
BgIds == 1..MaxBg
Calls == 0..MaxBg

\* execute_workflow lines 265-270: only a Tool step can be a background step.
NeverBackground(step) == FALSE
IsBackground(step) == step.kind = "Tool" /\ step.is_background

BgSteps(plan) == {i \in 1..Len(plan) : plan[i].kind = "Tool" /\ plan[i].is_background}

\* is_elicitation_active(session_id); the model has one session, "s".
is_elicitation_active(set, sid) == sid \in set

\* Context::new plus the workflow memory of session.rs lines 205-217.
NewContext(e) == [input_text |-> e, history |-> <<>>]

\* CreateElicitationResult, or the error, the handler returns, with the request
\* id it sent a cancelled notification for (0: it sent none).
Answer(action, note) == [action |-> action, note |-> note]
NoAnswer == Answer("none", 0)

NoOutput == [type |-> "none", ref |-> 0]

\* StepResult: the status and the optional output a step's run returns.
StepResult(status, output) == [status |-> status, output |-> output]
NoResult == StepResult("none", NoOutput)

\* An OutputEvent is sent to the session's output handlers.
Emit(o) == lastOut' = o

SEStart ==
    /\ evKind = [e \in Events |-> "json"]
    /\ feNext = 1
    /\ bus = <<>>
    /\ inbox = <<>>
    /\ active = {}
    /\ pc = "idle"
    /\ cur = 0
    /\ pending = <<>>
    /\ steps = <<>>
    /\ idx = 0
    /\ ctx = NewContext(0)
    /\ tools = {}
    /\ res = NoResult
    /\ lastOut = NoOutput
    /\ fgActive = {}
    /\ fgBegun = {}
    /\ taken = {}
    /\ resumedAt = 0
    /\ lastEnd = "none"
    /\ bgReg = {}
    /\ callSt = [c \in Calls |-> "idle"]
    /\ elPos = [c \in Calls |-> 0]
    /\ elEv = [c \in Calls |-> 0]
    /\ elRes = [c \in Calls |-> NoAnswer]
    /\ elTotal = 0
    /\ bgSt = [k \in BgIds |-> "none"]
    /\ bgOf = [k \in BgIds |-> [ev |-> 0, idx |-> 0]]
    /\ bgNext = 1
    /\ bgTask = 0

\* SessionMessage::Shutdown in the inbox (the Input messages are event ids).
Shutdown == 0

\* tcp_console handle_connection: a line read from the socket becomes an
\* InputEvent with a fresh id, published on the input bus and then sent to the
\* session manager, whose dispatch forwards it to the inbox of the session's
\* actor (the fast path of SessionManager::dispatch; creation is in SpecSM).
FeSend(k) ==
    /\ feNext <= MaxEvents
    /\ evKind' = [evKind EXCEPT ![feNext] = k]
    /\ bus' = Append(bus, feNext)
    /\ inbox' = IF pc = "stopped" THEN inbox ELSE Append(inbox, feNext)
    /\ feNext' = feNext + 1
    /\ UNCHANGED <<active, actorVars, histVars, callVars, bgVars, ceVars, tmVars, smVars, mcVars, prVars, elVars, wfVars, tcVars, soVars, twVars>>

\* A holder of the session's sender sends SessionMessage::Shutdown; one is
\* enough, the actor reads nothing after it.
SendShutdown ==
    /\ pc # "stopped"
    /\ \A i \in 1..Len(inbox) : inbox[i] # Shutdown
    /\ inbox' = Append(inbox, Shutdown)
    /\ UNCHANGED <<evKind, feNext, bus, actorVars, histVars, callVars, bgVars, ceVars, tmVars, smVars, mcVars, prVars, elVars, wfVars, tcVars, soVars, twVars>>

\* run_inner: the loop receives the next message only after handle_input of the
\* previous one has returned.
RecvWhileBusy == TRUE
RecvReady == pc = "idle"

\* Option::take on pending_execution leaves None behind.
KeepPending(p) == p
TakePending(p) == <<>>

\* handle_input lines 160-165: the suspended plan, its index and its context
\* with input_text overwritten by the new input.
ResumedFromStart(p, text) ==
    [steps |-> p.steps, idx |-> 1, ctx |-> [p.ctx EXCEPT !.input_text = text]]
Resumed(p, text) ==
    [steps |-> p.steps, idx |-> p.idx, ctx |-> [p.ctx EXCEPT !.input_text = text]]

BeginForeground(e) ==
    /\ fgActive' = fgActive \cup {e}
    /\ fgBegun' = fgBegun \cup {e}

\* handle_input returns to run_inner; the locals of execute_workflow are gone.
\* run_inner lines 89-99: handle_input has returned, however it ended, and the
\* while loop calls recv again.
StopAfterFailure(how) == IF how = "failed" THEN "stopped" ELSE "idle"
LoopAfter(how) == "idle"

\* handle_input returns to run_inner; its locals are dropped.
EndHandling(how) ==
    /\ pc' = LoopAfter(how)
    /\ cur' = 0
    /\ steps' = <<>>
    /\ idx' = 0
    /\ ctx' = NewContext(0)
    /\ fgActive' = fgActive \ {cur}
    /\ resumedAt' = 0
    /\ lastEnd' = how

\* A return of handle_input that follows no error.
Return == EndHandling("returned")

\* A return of handle_input after an Err of Perception, Intent, the Decision
\* Engine or a workflow step (handle_input lines 169-244, execute_workflow
\* lines 431-434), which is logged.
FailGoesOn ==
    /\ pc' = "loop"
    /\ idx' = idx + 1
    /\ lastEnd' = "failed"
    /\ UNCHANGED <<cur, steps, ctx, fgActive, resumedAt>>
Fail == EndHandling("failed")

\* handle_input lines 106-112: the handler returns at once when
\* check_and_remove_consumed_event gave true.
check_ignored(ret) == FALSE
skip_consumed(ret) == ret

\* run_inner receives Input(event) and handle_input runs up to its first call
\* of a module: the consumed check, the elicitation-active check, and the
\* pending_execution check.
ActorRecv ==
    /\ RecvReady
    /\ inbox # <<>>
    /\ Head(inbox) # Shutdown
    /\ LET e == Head(inbox)
           r == check_and_remove_consumed_event(consumed, e)
       IN /\ inbox' = Tail(inbox)
          /\ consumed' = r.set
          /\ IF skip_consumed(r.ret) \/ is_elicitation_active(active, "s")
             THEN UNCHANGED <<pc, cur, pending, steps, idx, ctx, fgActive, resumedAt, fgBegun>>
             ELSE IF pending # <<>>
             THEN LET w == Resumed(pending[1], e)
                  IN /\ pending' = TakePending(pending)
                     /\ steps' = w.steps
                     /\ idx' = w.idx
                     /\ ctx' = w.ctx
                     /\ cur' = e
                     /\ pc' = "loop"
                     /\ resumedAt' = w.idx
                     /\ BeginForeground(e)
             ELSE /\ pc' = "perceive"
                  /\ cur' = e
                  /\ BeginForeground(e)
                  /\ UNCHANGED <<pending, steps, idx, ctx, resumedAt>>
    /\ UNCHANGED <<evKind, feNext, bus, active, tools, res, lastOut, lastEnd, taken, bgReg, callVars, bgVars,
                   ceMarked, ceRets, tmVars, smVars, mcVars, prVars, elVars, wfVars, tcVars, soVars, twVars>>

\* run_inner lines 94-97: the actor receives Shutdown and leaves its loop; the
\* session, with its inbox and its pending_execution, is dropped.
ActorShutdown ==
    /\ RecvReady
    /\ inbox # <<>>
    /\ Head(inbox) = Shutdown
    /\ pc' = "stopped"
    /\ inbox' = <<>>
    /\ pending' = <<>>
    /\ UNCHANGED <<evKind, feNext, bus, active, tools, res, cur, steps, idx, ctx, histVars, callVars, bgVars,
                   ceVars, tmVars, smVars, mcVars, prVars, elVars, wfVars, tcVars, soVars, twVars>>

\* handle_input lines 169-176: Perception; on failure return.
ActorPerceive ==
    /\ pc = "perceive"
    /\ \/ pc' = "intent" /\ UNCHANGED <<cur, steps, idx, ctx, fgActive, resumedAt, lastEnd>>
       \/ Fail
    /\ UNCHANGED <<feVars, active, tools, res, pending, lastOut, fgBegun, taken, bgReg, callVars, bgVars,
                   ceVars, tmVars, smVars, mcVars, prVars, elVars, wfVars, tcVars, soVars, twVars>>

\* IntentModule::evaluate returns Act (the reply held "DECISION: RESPOND"),
\* Ignore, or an error.
IntentDecision == {"Act", "Ignore"}

\* handle_input line 192: intent == IntentDecision::Ignore.
never_ignore(intent) == FALSE
is_ignore(intent) == intent = "Ignore"

\* handle_input lines 179-190: Intent; on failure return, otherwise hold the
\* decision (it is the actor's position until line 192 has compared it).
ActorIntent ==
    /\ pc = "intent"
    /\ \/ \E intent \in IntentDecision :
             pc' = intent /\ UNCHANGED <<cur, steps, idx, ctx, fgActive, resumedAt, lastEnd>>
       \/ Fail
    /\ UNCHANGED <<feVars, active, tools, res, pending, lastOut, fgBegun, taken, bgReg, callVars, bgVars,
                   ceVars, tmVars, smVars, mcVars, prVars, elVars, wfVars, tcVars, soVars, twVars>>

\* Results of the inner client's list_tools: an error, or a list of the
\* server's tools (here at most one, "t").
Listing(ok, ts) == [ok |-> ok, tools |-> ts]
InnerListings == {Listing(FALSE, {}), Listing(TRUE, {}), Listing(TRUE, {"t"})}

\* TaskAwareMcpClient::list_tools: the inner error is passed on; to a list the
\* two local tools are appended.
list_tools(inner) ==
    IF inner.ok
    THEN Listing(TRUE, inner.tools \cup {"list_running_tasks", "cancel_task"})
    ELSE inner

\* Result::unwrap_or_default on the listing: an error counts as no tools.
unwrap_or_default(r) == IF r.ok THEN r.tools ELSE {}

\* decide line 54: tools.is_empty().
never_empty(ts) == FALSE
is_empty(ts) == ts = {}

\* handle_input lines 192-200 and decide line 53: on Ignore the handler
\* returns; otherwise it calls the Decision Engine, which fetches the tool
\* catalog from the session's MCP client.
ActorListTools ==
    /\ pc \in IntentDecision
    /\ IF is_ignore(pc)
       THEN /\ Return
            /\ UNCHANGED tools
       ELSE /\ \E inner \in InnerListings : tools' = unwrap_or_default(list_tools(inner))
            /\ pc' = "decide"
            /\ UNCHANGED <<cur, steps, idx, ctx, fgActive, resumedAt, lastEnd>>
    /\ UNCHANGED <<feVars, active, res, pending, lastOut, fgBegun, taken, bgReg, callVars, bgVars,
                   ceVars, tmVars, smVars, mcVars, prVars, elVars, wfVars, tcVars, soVars, twVars>>

\* decide lines 54-57 and handle_input lines 199-244: with an empty catalog the
\* engine fails with NO_TOOLS_AVAILABLE and the session emits the "no
\* capability" output to the target handlers and returns. Otherwise the engine
\* returns a plan, which execute_workflow starts at index 0 (1 in the model),
\* or fails with another error (the LLM call or the parse), which is only
\* logged.
ActorDecide ==
    /\ pc = "decide"
    /\ tools' = {}
    /\ IF is_empty(tools)
       THEN /\ Emit([type |-> "no_capability", ref |-> cur])
            /\ Fail
       ELSE \/ \E plan \in Plans :
                  /\ Cardinality(BgSteps(plan)) <= MaxBg + 1 - bgNext
                  /\ steps' = plan
                  /\ idx' = 1
                  /\ ctx' = NewContext(cur)
                  /\ pc' = "loop"
                  /\ UNCHANGED <<cur, fgActive, resumedAt, lastEnd, lastOut>>
            \/ /\ Fail
               /\ UNCHANGED lastOut
    /\ UNCHANGED <<feVars, active, res, pending, fgBegun, taken, bgReg, callVars, bgVars, ceVars, tmVars, smVars, mcVars, prVars, elVars, wfVars, tcVars, soVars, twVars>>

\* execute_workflow line 254: steps.iter().enumerate().skip(start_idx) goes on
\* with the step after the one that has just run.
FirstIndex(i) == 1
NextIndex(i) == i + 1

\* execute_workflow: the for loop has run out of steps.
ActorPlanEnd ==
    /\ pc = "loop"
    /\ idx > Len(steps)
    /\ Return
    /\ UNCHANGED <<feVars, active, tools, res, pending, lastOut, fgBegun, taken, bgReg, callVars, bgVars,
                   ceVars, tmVars, smVars, mcVars, prVars, elVars, wfVars, tcVars, soVars, twVars>>

\* What the run of a step that is no Tool returns: MemoryStep and ProfileStep
\* return Continue without output, RelationshipStep returns Stop with an
\* output, a waiting step returns WaitUser, with or without an output, or
\* Continue.
StepResults(kind, ref) ==
    CASE kind \in {"Memory", "Profile"} -> {StepResult("Continue", NoOutput)}
      [] kind = "Relationship" -> {StepResult("Stop", [type |-> "relationship", ref |-> ref])}
      [] kind = "Wait" -> {StepResult("WaitUser", NoOutput),
                           StepResult("WaitUser", [type |-> "wait", ref |-> ref]),
                           StepResult("Continue", NoOutput)}

\* execute_workflow lines 364-390: the output of the step, if it has one, is
\* dispatched to the target handlers.
NoDispatch(o) == UNCHANGED lastOut
Dispatch(o) == IF o = NoOutput THEN UNCHANGED lastOut ELSE Emit(o)

\* execute_workflow lines 357-390 for a step that is no Tool: the step runs and
\* its output is dispatched; its status is handled next.
ActorBuiltinStep ==
    /\ pc = "loop"
    /\ idx <= Len(steps)
    /\ steps[idx].kind # "Tool"
    /\ \E r \in StepResults(steps[idx].kind, cur) :
          /\ res' = r
          /\ Dispatch(r.output)
    /\ pc' = "status"
    /\ UNCHANGED <<feVars, active, tools, cur, pending, steps, idx, ctx, fgActive, resumedAt, lastEnd,
                   fgBegun, taken, bgReg, callVars, bgVars, ceVars, tmVars, smVars, mcVars, prVars, elVars, wfVars, tcVars, soVars, twVars>>

\* execute_workflow lines 421-424: the arm of StepStatus::Stop breaks the loop.
never_stop(status) == FALSE
is_stop(status) == status = "Stop"

\* execute_workflow lines 392-429: the status of the step that has run. On
\* WaitUser the prompt is emitted, the plan, the index and the context are
\* stored in pending_execution and handle_input returns; Stop ends the plan;
\* Continue goes on with the next step.
ActorStatus ==
    /\ pc = "status"
    /\ res' = NoResult
    /\ CASE res.status = "WaitUser" ->
              /\ Emit([type |-> "prompt", ref |-> cur])
              /\ pending' = <<[steps |-> steps, idx |-> idx, ctx |-> ctx]>>
              /\ Return
         [] is_stop(res.status) ->
              /\ Return
              /\ UNCHANGED <<pending, lastOut>>
         [] OTHER ->
              /\ idx' = NextIndex(idx)
              /\ pc' = "loop"
              /\ UNCHANGED <<cur, steps, ctx, fgActive, resumedAt, lastEnd, pending, lastOut>>
    /\ UNCHANGED <<feVars, active, tools, fgBegun, taken, bgReg, callVars, bgVars, ceVars, tmVars, smVars, mcVars, prVars, elVars, wfVars, tcVars, soVars, twVars>>

\* McpToolStep::run of a foreground Tool step, up to the call: the resolver
\* fails (the step fails, the plan loop breaks), or the history entry is pushed
\* and the call goes out on the persistent connection.
ActorToolStart ==
    /\ pc = "loop"
    /\ idx <= Len(steps)
    /\ steps[idx].kind = "Tool" /\ ~IsBackground(steps[idx])
    /\ \/ /\ Fail
          /\ UNCHANGED <<callSt, elRes, elTotal>>
       \/ /\ ctx' = [ctx EXCEPT !.history = Append(@, [step_index |-> idx, result |-> FALSE])]
          /\ callSt' = [callSt EXCEPT ![0] = "open"]
          /\ elRes' = [elRes EXCEPT ![0] = NoAnswer]
          /\ UNCHANGED elTotal
          /\ pc' = "fgCall"
          /\ UNCHANGED <<cur, steps, idx, fgActive, resumedAt, lastEnd>>
    /\ UNCHANGED <<feVars, active, tools, res, pending, lastOut, fgBegun, taken, bgReg, elPos, elEv, bgVars,
                   ceVars, tmVars, smVars, mcVars, prVars, elVars, wfVars, tcVars, soVars, twVars>>

\* call lines 608-621 and 561-574: what call() makes of the end of the request.
\* ServiceError::Cancelled becomes a success result carrying a tool_cancel
\* text; otherwise the server's result or an error is passed on.
CallOutcomes(st) ==
    IF st = "cancelled" THEN {"ok_tool_cancel"} ELSE {"ok", "err"}

\* McpToolStep::run lines 513-543: every Ok value of call() becomes the step's
\* output, whatever its content.
StepOutput(outcome, ref) ==
    [type |-> IF outcome = "ok_tool_cancel" THEN "tool_cancelled" ELSE "tool", ref |-> ref]

\* The foreground call returns: with a result (it is attached to the history
\* entry, the step returns Continue with the result as its output, and the
\* output is dispatched) or with an error (the loop breaks).
ActorToolReturn ==
    /\ pc = "fgCall"
    /\ callSt[0] \in {"open", "cancelled"}
    /\ callSt' = [callSt EXCEPT ![0] = "idle"]
    /\ \E outcome \in CallOutcomes(callSt[0]) :
          IF outcome # "err"
          THEN /\ ctx' = [ctx EXCEPT !.history[Len(ctx.history)].result = TRUE]
               /\ res' = StepResult("Continue", StepOutput(outcome, cur))
               /\ Dispatch(StepOutput(outcome, cur))
               /\ pc' = "status"
               /\ UNCHANGED <<cur, steps, idx, fgActive, resumedAt, lastEnd>>
          ELSE /\ Fail
               /\ UNCHANGED <<res, lastOut>>
    /\ elRes' = [elRes EXCEPT ![0] = NoAnswer]
    /\ UNCHANGED <<feVars, active, tools, pending, fgBegun, taken, bgReg, elPos, elEv, elTotal, bgVars,
                   ceVars, tmVars, smVars, mcVars, prVars, elVars, wfVars, tcVars, soVars, twVars>>

\* The server answers an open call with a create_elicitation request: the
\* handler emits the prompt on the output bus and subscribes to the input bus.
ServerElicit(c) ==
    /\ callSt[c] = "open"
    /\ elTotal < MaxElicit
    /\ elTotal' = elTotal + 1
    /\ callSt' = [callSt EXCEPT ![c] = "elicit"]
    /\ elPos' = [elPos EXCEPT ![c] = Len(bus)]
    /\ Emit([type |-> "elicitation", ref |-> c])
    /\ UNCHANGED <<feVars, active, actorVars, fgActive, resumedAt, lastEnd, fgBegun, taken, bgReg, elEv, elRes, bgVars,
                   ceVars, tmVars, smVars, mcVars, prVars, elVars, wfVars, tcVars, soVars, twVars>>

\* is_cancel_text: the text contains one of the cancel words.
never_cancel_text(kind) == FALSE
is_cancel_text(kind) == kind = "cancel"

\* serde_json::from_str succeeds on the text.
parses_as_json(kind) == kind = "json"

\* SharedCtx::current_call_tool_request_id: Some(id) from the moment the call
\* on the persistent connection has been sent until that call returns (call
\* lines 603-606 and 633-643); 1 stands for the id of that request.
current_call_tool_request_id == IF callSt[0] # "idle" THEN 1 ELSE 0

\* notify_cancelled(request_id) on the handler's connection: a request of that
\* connection pending under this id ends with ServiceError::Cancelled, unless
\* the id is not that of a pending request there or the response wins the race.
AfterNotify(rid) == IF rid = 0 THEN {"open"} ELSE {"open", "cancelled"}

\* create_elicitation lines 141-233: the handler receives the next event of the
\* bus (every event of the model belongs to the handler's session). A cancel
\* phrase is marked consumed, a tool_cancel output is published, the recorded
\* request id, if any, is notified as cancelled and Cancel is returned; text
\* that parses as JSON is marked consumed and Accept returned; other text goes
\* to the LLM.
HandlerTake(c) ==
    /\ callSt[c] = "elicit"
    /\ elPos[c] < Len(bus)
    /\ LET e == bus[elPos[c] + 1]
           rid == current_call_tool_request_id
       IN /\ elPos' = [elPos EXCEPT ![c] = 0]
          /\ IF is_cancel_text(evKind[e])
             THEN /\ consumed' = mark_event_consumed(consumed, e)
                  /\ Emit([type |-> "tool_cancel", ref |-> e])
                  /\ elRes' = [elRes EXCEPT ![c] = Answer("cancel", rid)]
                  /\ taken' = taken \cup {e}
                  /\ \E st \in AfterNotify(rid) : callSt' = [callSt EXCEPT ![c] = st]
                  /\ UNCHANGED elEv
             ELSE IF parses_as_json(evKind[e])
             THEN /\ consumed' = mark_event_consumed(consumed, e)
                  /\ elRes' = [elRes EXCEPT ![c] = Answer("accept", 0)]
                  /\ taken' = taken \cup {e}
                  /\ callSt' = [callSt EXCEPT ![c] = "open"]
                  /\ UNCHANGED <<elEv, lastOut>>
             ELSE /\ callSt' = [callSt EXCEPT ![c] = "llm"]
                  /\ elEv' = [elEv EXCEPT ![c] = e]
                  /\ UNCHANGED <<consumed, elRes, taken, lastOut>>
    /\ UNCHANGED <<feVars, active, actorVars, fgActive, resumedAt, lastEnd, fgBegun, bgReg, elTotal, bgVars,
                   ceMarked, ceRets, tmVars, smVars, mcVars, prVars, elVars, wfVars, tcVars, soVars, twVars>>

\* create_elicitation lines 234-276: the LLM's reply parses as JSON, or it does
\* not, or the LLM call fails; mark_event_consumed stands only in the arm of
\* the reply that parses (lines 254-258).
LlmReplies == {"json", "invalid_json", "llm_error"}
always_marks(reply) == TRUE
marks_event(reply) == reply = "json"

\* create_elicitation lines 200-285: the handler returns Accept for a reply
\* that parses and an error for the two other replies.
HandlerLlm(c) ==
    /\ callSt[c] = "llm"
    /\ callSt' = [callSt EXCEPT ![c] = "open"]
    /\ elEv' = [elEv EXCEPT ![c] = 0]
    /\ \E reply \in LlmReplies :
          /\ consumed' = IF marks_event(reply)
                          THEN mark_event_consumed(consumed, elEv[c]) ELSE consumed
          /\ elRes' = [elRes EXCEPT ![c] = Answer(IF reply = "json" THEN "accept" ELSE "error", 0)]
          /\ taken' = IF reply = "json" THEN taken \cup {elEv[c]} ELSE taken
    /\ UNCHANGED <<feVars, active, actorVars, lastOut, fgActive, resumedAt, lastEnd, fgBegun, bgReg, elPos, elTotal, bgVars,
                   ceMarked, ceRets, tmVars, smVars, mcVars, prVars, elVars, wfVars, tcVars, soVars, twVars>>

\* execute_workflow lines 272-329: a background Tool step is spawned with a
\* fresh task id; the spawned task may run from here on.
ActorSpawnBg ==
    /\ pc = "loop"
    /\ idx <= Len(steps)
    /\ IsBackground(steps[idx])
    /\ bgNext <= MaxBg
    /\ bgSt' = [bgSt EXCEPT ![bgNext] = "running"]
    /\ bgOf' = [bgOf EXCEPT ![bgNext] = [ev |-> cur, idx |-> idx]]
    /\ bgTask' = bgNext
    /\ bgNext' = bgNext + 1
    /\ pc' = "bgAdd"
    /\ UNCHANGED <<feVars, active, tools, res, cur, pending, steps, idx, ctx, histVars, callVars,
                   ceVars, tmVars, smVars, mcVars, prVars, elVars, wfVars, tcVars, soVars, twVars>>

\* execute_workflow lines 331-354: add_task registers the spawned task, the
\* "Started background task" output is emitted and the loop continues with the
\* next step.
ActorBgAdd ==
    /\ pc = "bgAdd"
    /\ LET f == fetch_add(counter)
       IN /\ counter' = f.new
          /\ tasks' = insert_task(tasks, bgTask, f.old + 1)
    /\ Emit([type |-> "started", ref |-> bgTask])
    /\ bgReg' = bgReg \cup {bgTask}
    /\ bgTask' = 0
    /\ idx' = NextIndex(idx)
    /\ pc' = "loop"
    /\ UNCHANGED <<feVars, active, tools, res, cur, pending, steps, ctx, fgActive, resumedAt, lastEnd, fgBegun, taken, callVars,
                   bgSt, bgOf, bgNext, ceVars, aborted, tmAux, smVars, mcVars, prVars, elVars, wfVars, tcVars, soVars, twVars>>

\* with_service_retry holds the persistent connection's lock for the whole of
\* a foreground call.
ServiceLocked == callSt[0] # "idle"

\* The spawned task runs McpToolStep::run: the step fails before the call (the
\* resolver or connect_new fails), or required_fields and list_tools are read
\* over the persistent connection and the call goes out on a new connection.
BgStart(k) ==
    /\ bgSt[k] = "running"
    /\ \/ /\ bgSt' = [bgSt EXCEPT ![k] = "finished"]
          /\ UNCHANGED <<callSt, elRes, elTotal>>
       \/ /\ ~ServiceLocked
          /\ bgSt' = [bgSt EXCEPT ![k] = "calling"]
          /\ callSt' = [callSt EXCEPT ![k] = "open"]
          /\ elRes' = [elRes EXCEPT ![k] = NoAnswer]
          /\ UNCHANGED elTotal
    /\ UNCHANGED <<feVars, active, actorVars, histVars, elPos, elEv, bgOf, bgNext, bgTask,
                   ceVars, tmVars, smVars, mcVars, prVars, elVars, wfVars, tcVars, soVars, twVars>>

\* The background call returns: the step's output, if any, is dispatched.
BgReturn(k) ==
    /\ bgSt[k] = "calling"
    /\ callSt[k] \in {"open", "cancelled"}
    /\ callSt' = [callSt EXCEPT ![k] = "idle"]
    /\ bgSt' = [bgSt EXCEPT ![k] = "finished"]
    /\ \E outcome \in CallOutcomes(callSt[k]) :
          IF outcome # "err"
          THEN Emit(StepOutput(outcome, 0 - k))
          ELSE UNCHANGED lastOut
    /\ elRes' = [elRes EXCEPT ![k] = NoAnswer]
    /\ UNCHANGED <<feVars, active, actorVars, fgActive, resumedAt, lastEnd, fgBegun, taken, bgReg, elPos, elEv, elTotal,
                   bgOf, bgNext, bgTask, ceVars, tmVars, smVars, mcVars, prVars, elVars, wfVars, tcVars, soVars, twVars>>

\* session.rs line 328: the spawned task removes itself from the Task Manager.
BgRemove(k) ==
    /\ bgSt[k] = "finished"
    /\ tasks' = remove_task(tasks, k)
    /\ bgSt' = [bgSt EXCEPT ![k] = "done"]
    /\ UNCHANGED <<feVars, active, actorVars, histVars, callVars, bgOf, bgNext, bgTask, ceVars,
                   counter, aborted, tmAux, smVars, mcVars, prVars, elVars, wfVars, tcVars, soVars, twVars>>

SENext ==
    \/ \E k \in EventKinds : FeSend(k)
    \/ ActorRecv
    \/ ActorPerceive
    \/ ActorIntent
    \/ ActorListTools
    \/ ActorDecide
    \/ ActorPlanEnd
    \/ ActorBuiltinStep
    \/ ActorStatus
    \/ ActorToolStart
    \/ ActorToolReturn
    \/ ActorSpawnBg
    \/ ActorBgAdd
    \/ \E c \in Calls : ServerElicit(c) \/ HandlerTake(c) \/ HandlerLlm(c)
    \/ \E k \in BgIds : BgStart(k) \/ BgReturn(k) \/ BgRemove(k)

\* The actor task with its inbox, when a holder of the sender also sends
\* Shutdown (no code of the repository does).
RunNext ==
    \/ \E k \in EventKinds : FeSend(k)
    \/ SendShutdown
    \/ ActorRecv
    \/ ActorShutdown
    \/ ActorPerceive
    \/ ActorIntent
    \/ ActorListTools
    \/ ActorDecide
    \/ ActorPlanEnd
    \/ ActorBuiltinStep
    \/ ActorStatus
    \/ ActorToolStart
    \/ ActorToolReturn
    \/ ActorSpawnBg
    \/ ActorBgAdd

(***************************************************************************)
(* The Session Manager (core/session.rs, SessionManager::dispatch)         *)
(***************************************************************************)
Dispatchers == 1..SMThreads
SessionIds == {"none", "s1"}
Sources == {"tcp", "web"}

InputEvent(id, sid, src) == [id |-> id, session_id |-> sid, source |-> src]

\* dispatch lines 478-481: event.session_id if set, else event.source.
SessionKey(ev) == IF ev.session_id # "none" THEN ev.session_id ELSE ev.source

\* sender.send(..).is_ok(): the map holds a sender for the key and the
\* receiver, owned by the actor's task, has not been dropped.
SenderStored(ss, as, key) == key \in DOMAIN ss
SenderLive(ss, as, key) == key \in DOMAIN ss /\ as[ss[key]].alive

\* dispatch lines 496-501: the second look at the map, under the write lock.
SlowPathBlind(ss, as, key) == FALSE
SlowPathFinds(ss, as, key) == SenderLive(ss, as, key)

\* UnboundedSender::send appends the message to the actor's channel.
Send(as, a, id) == [as EXCEPT ![a].sent = Append(@, id)]

SMStart ==
    /\ smSessions = <<>>
    /\ smWriter = 0
    /\ smActors = <<>>
    /\ smClients = 0
    /\ smNextEv = 1
    /\ smStops = 0
    /\ smLog = {}
    /\ smPath = [e \in 1..MaxDispatch |-> "none"]
    /\ dPc = [d \in Dispatchers |-> "idle"]
    /\ dEv = [d \in Dispatchers |-> InputEvent(0, "none", "tcp")]

\* dispatch returns to its caller.
Done(d) ==
    /\ dPc' = [dPc EXCEPT ![d] = "idle"]
    /\ dEv' = [dEv EXCEPT ![d] = InputEvent(0, "none", "tcp")]

\* A caller enters dispatch with an event.
SMBegin(d, sid, src) ==
    /\ dPc[d] = "idle"
    /\ smNextEv <= MaxDispatch
    /\ dEv' = [dEv EXCEPT ![d] = InputEvent(smNextEv, sid, src)]
    /\ smLog' = smLog \cup {InputEvent(smNextEv, sid, src)}
    /\ smNextEv' = smNextEv + 1
    /\ dPc' = [dPc EXCEPT ![d] = "fast"]
    /\ UNCHANGED <<smSessions, smWriter, smActors, smClients, smStops, smPath,
                   ceVars, tmVars, seVars, mcVars, prVars, elVars, wfVars, tcVars, soVars, twVars>>

\* dispatch lines 483-492: under the read lock, send to the stored sender; on
\* success return, otherwise go on to the slow path.
SMFast(d) ==
    /\ dPc[d] = "fast"
    /\ smWriter = 0
    /\ LET key == SessionKey(dEv[d])
       IN IF SenderLive(smSessions, smActors, key)
          THEN /\ smActors' = Send(smActors, smSessions[key], dEv[d].id)
               /\ smPath' = [smPath EXCEPT ![dEv[d].id] = "fast"]
               /\ Done(d)
          ELSE /\ dPc' = [dPc EXCEPT ![d] = "slow"]
               /\ UNCHANGED <<smActors, smPath, dEv>>
    /\ UNCHANGED <<smSessions, smWriter, smClients, smNextEv, smStops, smLog,
                   ceVars, tmVars, seVars, mcVars, prVars, elVars, wfVars, tcVars, soVars, twVars>>

\* dispatch lines 494-501: take the write lock and look again; on a successful
\* send return (the lock is released), otherwise keep the lock and call the
\* factory.
SMSlowCheck(d) ==
    /\ dPc[d] = "slow"
    /\ smWriter = 0
    /\ LET key == SessionKey(dEv[d])
       IN IF SlowPathFinds(smSessions, smActors, key)
          THEN /\ smActors' = Send(smActors, smSessions[key], dEv[d].id)
               /\ smPath' = [smPath EXCEPT ![dEv[d].id] = "slow"]
               /\ Done(d)
               /\ UNCHANGED smWriter
          ELSE /\ smWriter' = d
               /\ dPc' = [dPc EXCEPT ![d] = "factory"]
               /\ UNCHANGED <<smActors, smPath, dEv>>
    /\ UNCHANGED <<smSessions, smClients, smNextEv, smStops, smLog,
                   ceVars, tmVars, seVars, mcVars, prVars, elVars, wfVars, tcVars, soVars, twVars>>

\* dispatch lines 503-543: the factory (main.rs lines 59-73, which cannot fail)
\* returns a client; a RobotSession, wrapped in a WebSession when the source is
\* "web", is spawned with a new channel, its sender stored under the key and
\* the event sent to it; the write lock is released.
SMCreate(d) ==
    /\ dPc[d] = "factory"
    /\ LET key == SessionKey(dEv[d])
           a == Len(smActors) + 1
       IN /\ smClients' = smClients + 1
          /\ smActors' = Append(smActors,
                [key |-> key, web |-> dEv[d].source = "web", alive |-> TRUE,
                 sent |-> <<dEv[d].id>>])
          /\ smSessions' = [k \in DOMAIN smSessions \cup {key} |->
                               IF k = key THEN a ELSE smSessions[k]]
    /\ smPath' = [smPath EXCEPT ![dEv[d].id] = "create"]
    /\ smWriter' = 0
    /\ Done(d)
    /\ UNCHANGED <<smNextEv, smStops, smLog,
                   ceVars, tmVars, seVars, mcVars, prVars, elVars, wfVars, tcVars, soVars, twVars>>

\* dispatch lines 505 and 546-552 with a factory that returns Err (the type
\* McpClientFactory allows it; the factory of main.rs always returns Ok): the
\* error is logged, nothing is spawned or stored, and dispatch returns, which
\* releases the write lock.
SMFactoryFailsSpawns(d) ==
    /\ dPc[d] = "factory"
    /\ LET key == SessionKey(dEv[d])
           a == Len(smActors) + 1
       IN /\ smClients' = smClients + 1
          /\ smActors' = Append(smActors,
                [key |-> key, web |-> dEv[d].source = "web", alive |-> TRUE, sent |-> <<>>])
          /\ smSessions' = [k \in DOMAIN smSessions \cup {key} |->
                               IF k = key THEN a ELSE smSessions[k]]
    /\ smPath' = [smPath EXCEPT ![dEv[d].id] = "dropped"]
    /\ smWriter' = 0
    /\ Done(d)
    /\ UNCHANGED <<smNextEv, smStops, smLog,
                   ceVars, tmVars, seVars, mcVars, prVars, elVars, wfVars, tcVars, soVars, twVars>>
SMFactoryFails(d) ==
    /\ dPc[d] = "factory"
    /\ smClients' = smClients + 1
    /\ smPath' = [smPath EXCEPT ![dEv[d].id] = "dropped"]
    /\ smWriter' = 0
    /\ Done(d)
    /\ UNCHANGED <<smSessions, smActors, smNextEv, smStops, smLog,
                   ceVars, tmVars, seVars, mcVars, prVars, elVars, wfVars, tcVars, soVars, twVars>>

\* run_inner ends (its task is gone, by a panic in a module or a Shutdown
\* message) and the receiver is dropped.
SMActorStop(a) ==
    /\ a \in DOMAIN smActors
    /\ smActors[a].alive
    /\ smStops < MaxStops
    /\ smStops' = smStops + 1
    /\ smActors' = [smActors EXCEPT ![a].alive = FALSE]
    /\ UNCHANGED <<smSessions, smWriter, smClients, smNextEv, smLog, smPath, dPc, dEv,
                   ceVars, tmVars, seVars, mcVars, prVars, elVars, wfVars, tcVars, soVars, twVars>>

SMNext ==
    \/ \E d \in Dispatchers : \E sid \in SessionIds : \E src \in Sources : SMBegin(d, sid, src)
    \/ \E d \in Dispatchers : SMFast(d) \/ SMSlowCheck(d) \/ SMCreate(d)
    \/ \E a \in 1..MaxDispatch : SMActorStop(a)

\* dispatch with a factory that may fail.
SMFNext ==
    \/ \E d \in Dispatchers : \E sid \in SessionIds : \E src \in Sources : SMBegin(d, sid, src)
    \/ \E d \in Dispatchers : SMFast(d) \/ SMSlowCheck(d) \/ SMCreate(d) \/ SMFactoryFails(d)
    \/ \E a \in 1..MaxDispatch : SMActorStop(a)

\* Events whose dispatch has begun and returned.
Returned == {e.id : e \in smLog} \ {dEv[d].id : d \in Dispatchers}

\* A receive that takes the newest message of the channel.
recv_newest(q, n) == q[Len(q)]

\* UnboundedReceiver::recv after n messages were received: the oldest message
\* still in the channel.
recv(q, n) == q[n + 1]

SOStart ==
    /\ smBefore = [e \in 1..MaxDispatch |-> {}]
    /\ smHandled = [a \in 1..MaxDispatch |-> <<>>]

\* A caller enters dispatch with an event (SMBegin, with the events whose
\* dispatch has returned recorded).
SOBegin(d, sid, src) ==
    /\ dPc[d] = "idle"
    /\ smNextEv <= MaxDispatch
    /\ dEv' = [dEv EXCEPT ![d] = InputEvent(smNextEv, sid, src)]
    /\ smLog' = smLog \cup {InputEvent(smNextEv, sid, src)}
    /\ smBefore' = [smBefore EXCEPT ![smNextEv] = Returned]
    /\ smNextEv' = smNextEv + 1
    /\ dPc' = [dPc EXCEPT ![d] = "fast"]
    /\ UNCHANGED <<smSessions, smWriter, smActors, smClients, smStops, smPath, smHandled,
                   ceVars, tmVars, seVars, mcVars, prVars, elVars, wfVars, tcVars, twVars>>

\* run_inner, lines 87-100: the actor receives the next message of its inbox
\* and handles it to the end before it receives another.
SORecv(a) ==
    /\ a \in DOMAIN smActors
    /\ smActors[a].alive
    /\ Len(smHandled[a]) < Len(smActors[a].sent)
    /\ smHandled' = [smHandled EXCEPT ![a] = Append(@, recv(smActors[a].sent, Len(@)))]
    /\ UNCHANGED <<smBefore, smVars, ceVars, tmVars, seVars, mcVars, prVars, elVars, wfVars, tcVars, twVars>>

\* dispatch and the actors' receive loops, for events of the tcp front-end
\* with and without a session id.
SONext ==
    \/ \E d \in Dispatchers : \E sid \in SessionIds : SOBegin(d, sid, "tcp")
    \/ \E d \in Dispatchers : SMFast(d) \/ SMSlowCheck(d) \/ SMCreate(d)
    \/ \E a \in 1..MaxDispatch : SORecv(a) \/ SMActorStop(a)

(***************************************************************************)
(* MCP client (mcp/rmcp_client.rs): with_service_retry and call             *)
(***************************************************************************)
\* The tasks that use the session's client at the same time: the session actor
\* and a background tool task.
Callers == {"actor", "task"}
Operations == {"list_tools", "call_tool", "call_tool_dedicated"}

\* Error texts, as the words they are made of.
TransportClosed == <<"Transport", "closed">>
UnexpectedEof == <<"unexpected", "EOF">>
InvalidParams == <<"invalid", "params">>
RequestTimeout == <<"request", "timeout">>
UnexpectedResponse == <<"unexpected", "response">>
ConnectRefused == <<"Connection", "refused">>
NotConnected == <<"MCP", "not connected">>
TaskCancelled == <<"task", "cancelled">>
ErrorTexts == {TransportClosed, UnexpectedEof, InvalidParams, RequestTimeout}

\* What a request or an operation ends with; raw is what await_response gave.
Ok(val, raw) == [ok |-> TRUE, val |-> val, text |-> <<>>, raw |-> raw]
Err(text, raw) == [ok |-> FALSE, val |-> "none", text |-> text, raw |-> raw]
NoResponse == [ok |-> FALSE, val |-> "none", text |-> <<>>, raw |-> "none"]

\* str::to_ascii_lowercase, word by word.
to_ascii_lowercase(w) ==
    CASE w = "Transport" -> "transport"
      [] w = "EOF" -> "eof"
      [] w = "Connection" -> "connection"
      [] w = "N" -> "n"
      [] w = "U" -> "u"
      [] w = "L" -> "l"
      [] OTHER -> w

\* should_reconnect: the lowercased text contains one of the seven phrases.
ReconnectPhrases ==
    {"broken pipe", "connection", "transport", "closed", "eof", "reset by peer", "os error"}
always_reconnect(text) == TRUE
should_reconnect(text) ==
    \E i \in 1..Len(text) : to_ascii_lowercase(text[i]) \in ReconnectPhrases

\* What await_response can give for the request of an operation.
Response(kind, text) == [kind |-> kind, text |-> text]
Responses(op) ==
    {Response("response", <<>>), Response("other", <<>>)}
        \cup {Response("error", e) : e \in ErrorTexts}
        \cup (IF op = "list_tools" THEN {} ELSE {Response("cancelled", <<>>)})

\* call lines 561-574 and 608-621: ServiceError::Cancelled becomes a success
\* result with a tool_cancel text.
cancelled_as_error(raw) == Err(TaskCancelled, raw)
cancelled_as_success(raw) == Ok("tool_cancel", raw)

\* The closure call and list_tools give to with_service_retry, and the same
\* match on the dedicated connection (call lines 556-580 and 603-626).
Request(op, r) ==
    CASE r.kind = "response" -> Ok(IF op = "list_tools" THEN "tools" ELSE "result", "response")
      [] r.kind = "other" -> IF op = "list_tools" THEN Ok("tools", "response")
                             ELSE Err(UnexpectedResponse, "other")
      [] r.kind = "cancelled" -> cancelled_as_success("cancelled")
      [] r.kind = "error" -> Err(r.text, "error")

McpStart ==
    /\ service = 0
    /\ connNext = 1
    /\ mPc = [t \in Callers |-> "idle"]
    /\ mOp = [t \in Callers |-> "none"]
    /\ mTries = [t \in Callers |-> <<>>]
    /\ mFirst = [t \in Callers |-> NoResponse]
    /\ mOut = [t \in Callers |-> NoResponse]
    /\ mOps = 0
    /\ lock = "none"
    /\ mConn = [t \in Callers |-> 0]
    /\ mElicit = [t \in Callers |-> FALSE]

\* The operation returns.
Finish(t, result) ==
    /\ mPc' = [mPc EXCEPT ![t] = "done"]
    /\ mOut' = [mOut EXCEPT ![t] = result]

\* call lines 539-543: the tool of the call is marked is_long_running.
never_parallel(op) == FALSE
is_parallel(op) == op = "call_tool_dedicated"

\* self.service.lock().await returns only when no caller holds the guard.
LockIgnored == TRUE
LockFree == lock = "none"

\* A caller begins list_tools, or call for a tool that is not long-running
\* (persistent connection, with_service_retry) or for a long-running one
\* (dedicated connection).
McpBegin(t, op) ==
    /\ mPc[t] \in {"idle", "done"}
    /\ mOps < MaxOps
    /\ mOps' = mOps + 1
    /\ mOp' = [mOp EXCEPT ![t] = op]
    /\ mPc' = [mPc EXCEPT ![t] = IF is_parallel(op) THEN "connect_new" ELSE "ensure"]
    /\ mTries' = [mTries EXCEPT ![t] = <<>>]
    /\ mFirst' = [mFirst EXCEPT ![t] = NoResponse]
    /\ mOut' = [mOut EXCEPT ![t] = NoResponse]
    /\ UNCHANGED <<service, connNext, lock, mConn, mElicit, ceVars, tmVars, seVars, smVars, prVars, elVars, wfVars, tcVars, soVars, twVars>>

\* ensure_connected lines 393-398: under the lock; with a cached connection
\* there is nothing to do.
McpEnsure(t) ==
    /\ mPc[t] = "ensure"
    /\ LockFree
    /\ mPc' = [mPc EXCEPT ![t] = IF service # 0 THEN "run" ELSE "connect"]
    /\ UNCHANGED <<service, connNext, mOp, mTries, mFirst, mOut, mOps, lock, mConn, mElicit,
                   ceVars, tmVars, seVars, smVars, prVars, elVars, wfVars, tcVars, soVars, twVars>>

\* ensure_connected lines 400-405: connect fails and the error is returned by
\* with_service_retry, or the new connection is cached, under the lock, unless
\* another caller has cached one meanwhile.
McpConnect(t) ==
    /\ mPc[t] = "connect"
    /\ \/ /\ Finish(t, Err(ConnectRefused, "none"))
          /\ UNCHANGED <<service, connNext>>
       \/ /\ connNext <= MaxConns
          /\ LockFree
          /\ connNext' = connNext + 1
          /\ service' = IF service = 0 THEN connNext ELSE service
          /\ mPc' = [mPc EXCEPT ![t] = "run"]
          /\ UNCHANGED mOut
    /\ UNCHANGED <<mOp, mTries, mFirst, mOps, lock, mConn, mElicit, ceVars, tmVars, seVars, smVars, prVars, elVars, wfVars, tcVars, soVars, twVars>>

\* with_service_retry lines 432-439 and 454-460: an attempt begins. The caller
\* takes the lock; without a cached connection the operation fails as not
\* connected, else the request goes out on the cached connection and the
\* guard is held while it is awaited.
McpAttempt(t) ==
    /\ mPc[t] = "run"
    /\ LockFree
    /\ IF service = 0
       THEN /\ Finish(t, Err(NotConnected, "none"))
            /\ UNCHANGED <<lock, mConn>>
       ELSE /\ lock' = t
            /\ mConn' = [mConn EXCEPT ![t] = service]
            /\ mPc' = [mPc EXCEPT ![t] = "await"]
            /\ UNCHANGED mOut
    /\ UNCHANGED <<service, connNext, mOp, mTries, mFirst, mOps, mElicit, ceVars, tmVars, seVars, smVars, prVars, elVars, wfVars, tcVars, soVars, twVars>>

\* The server, working on a tool call, sends create_elicitation; the call
\* stays open until the handler has answered.
McpElicit(t) ==
    /\ mPc[t] \in {"await", "await_new"}
    /\ mOp[t] # "list_tools"
    /\ ~mElicit[t]
    /\ mElicit' = [mElicit EXCEPT ![t] = TRUE]
    /\ UNCHANGED <<service, connNext, mPc, mOp, mTries, mFirst, mOut, mOps, lock, mConn,
                   ceVars, tmVars, seVars, smVars, prVars, elVars, wfVars, tcVars, soVars, twVars>>

\* create_elicitation returns its answer to the server.
McpAnswer(t) ==
    /\ mElicit[t]
    /\ mElicit' = [mElicit EXCEPT ![t] = FALSE]
    /\ UNCHANGED <<service, connNext, mPc, mOp, mTries, mFirst, mOut, mOps, lock, mConn,
                   ceVars, tmVars, seVars, smVars, prVars, elVars, wfVars, tcVars, soVars, twVars>>

\* with_service_retry lines 439-465: the attempt ends and the guard is
\* dropped. The first attempt's Ok is returned; its error is returned unless
\* should_reconnect holds for its text; the second attempt's result is
\* returned as it is.
McpResponse(t) ==
    /\ mPc[t] = "await"
    /\ ~mElicit[t]
    /\ lock' = IF lock = t THEN "none" ELSE lock
    /\ mConn' = [mConn EXCEPT ![t] = 0]
    /\ \E r \in Responses(mOp[t]) :
          LET result == Request(mOp[t], r)
          IN /\ mTries' = [mTries EXCEPT ![t] = Append(@, mConn[t])]
             /\ IF Len(mTries[t]) = 0
                THEN /\ mFirst' = [mFirst EXCEPT ![t] = result]
                     /\ IF ~result.ok /\ should_reconnect(result.text)
                        THEN /\ mPc' = [mPc EXCEPT ![t] = "drop"]
                             /\ UNCHANGED mOut
                        ELSE Finish(t, result)
                ELSE /\ Finish(t, result)
                     /\ UNCHANGED mFirst
    /\ UNCHANGED <<service, connNext, mOp, mOps, mElicit, ceVars, tmVars, seVars, smVars, prVars, elVars, wfVars, tcVars, soVars, twVars>>

\* with_service_retry lines 448-452: the cached connection is dropped, under
\* the lock, and ensure_connected is called again.
McpDrop(t) ==
    /\ mPc[t] = "drop"
    /\ LockFree
    /\ service' = 0
    /\ mPc' = [mPc EXCEPT ![t] = "ensure"]
    /\ UNCHANGED <<connNext, mOp, mTries, mFirst, mOut, mOps, lock, mConn, mElicit,
                   ceVars, tmVars, seVars, smVars, prVars, elVars, wfVars, tcVars, soVars, twVars>>

\* call lines 545-560: connect_new, then the request goes out on the new
\* connection; the lock of the cached connection is not touched.
McpDedicated(t) ==
    /\ mPc[t] = "connect_new"
    /\ \/ /\ Finish(t, Err(ConnectRefused, "none"))
          /\ UNCHANGED <<connNext, mConn>>
       \/ /\ connNext <= MaxConns
          /\ connNext' = connNext + 1
          /\ mConn' = [mConn EXCEPT ![t] = connNext]
          /\ mPc' = [mPc EXCEPT ![t] = "await_new"]
          /\ UNCHANGED mOut
    /\ UNCHANGED <<service, mOp, mTries, mFirst, mOps, lock, mElicit, ceVars, tmVars, seVars, smVars, prVars, elVars, wfVars, tcVars, soVars, twVars>>

\* call lines 561-581: the response on the dedicated connection; no retry.
McpDedicatedResponse(t) ==
    /\ mPc[t] = "await_new"
    /\ ~mElicit[t]
    /\ mConn' = [mConn EXCEPT ![t] = 0]
    /\ \E r \in Responses(mOp[t]) : Finish(t, Request(mOp[t], r))
    /\ UNCHANGED <<service, connNext, mOp, mTries, mFirst, mOps, lock, mElicit,
                   ceVars, tmVars, seVars, smVars, prVars, elVars, wfVars, tcVars, soVars, twVars>>

McpNext ==
    \/ \E t \in Callers : \E op \in Operations : McpBegin(t, op)
    \/ \E t \in Callers : McpEnsure(t)
    \/ \E t \in Callers : McpConnect(t)
    \/ \E t \in Callers : McpAttempt(t)
    \/ \E t \in Callers : McpElicit(t)
    \/ \E t \in Callers : McpAnswer(t)
    \/ \E t \in Callers : McpResponse(t)
    \/ \E t \in Callers : McpDrop(t)
    \/ \E t \in Callers : McpDedicated(t)
    \/ \E t \in Callers : McpDedicatedResponse(t)

(***************************************************************************)
(* Tool-call arguments: LlmParameterResolver::resolve, McpToolStep::run    *)
(* and the arguments RmcpStdIoClient::call puts into the request           *)
(***************************************************************************)
MaxItems == 1

\* Strings are the sequences of their characters.
null_text == <<"n", "u", "l", "l">>
Strings == {<<>>, <<" ">>, null_text, <<" ", "N", "U", "L", "L">>, <<"x">>}

\* str::trim
RECURSIVE trim_start(_)
trim_start(s) == IF s # <<>> /\ Head(s) = " " THEN trim_start(Tail(s)) ELSE s
RECURSIVE trim_end(_)
trim_end(s) ==
    IF s # <<>> /\ s[Len(s)] = " " THEN trim_end(SubSeq(s, 1, Len(s) - 1)) ELSE s
trim(s) == trim_end(trim_start(s))

\* str::eq_ignore_ascii_case
eq_ignore_ascii_case(s, t) ==
    /\ Len(s) = Len(t)
    /\ \A i \in 1..Len(s) : to_ascii_lowercase(s[i]) = to_ascii_lowercase(t[i])

\* s.trim().eq_ignore_ascii_case("null")
is_null_string(s) == eq_ignore_ascii_case(trim(s), null_text)

\* serde_json::Value as an element of an array: null or a string.
Item(t, s) == [t |-> t, s |-> s]
Items == {Item("null", <<>>), Item("string", null_text), Item("string", <<"x">>)}
Arrays == UNION {[1..n -> Items] : n \in 0..MaxItems}

\* serde_json::Value as the value of an object's key; Absent is what
\* Map::get gives for a key the object does not hold.
Field(t, s, a) == [t |-> t, s |-> s, a |-> a]
Absent == Field("absent", <<>>, <<>>)
FNull == Field("null", <<>>, <<>>)
FNumber == Field("number", <<>>, <<>>)
FString(s) == Field("string", s, <<>>)
FArray(a) == Field("array", <<>>, a)
Fields ==
    {Absent, FNull, FNumber} \cup {FString(s) : s \in Strings} \cup {FArray(a) : a \in Arrays}

\* The keys of an argument object: two parameters of the tool and two keys
\* call treats as metadata (k == "session_id" || k.starts_with("__")).
ArgKeys == {"city", "date"}
MetaKeys == {"session_id", "__trace"}
Keys == ArgKeys \cup MetaKeys
is_meta(k) == k = "session_id" \/ k \in {"__trace"}
EmptyMap == [k \in Keys |-> Absent]
Maps ==
    {[k \in Keys |-> IF k \in ArgKeys THEN f[k] ELSE m[k]] :
        f \in [ArgKeys -> Fields], m \in [MetaKeys -> {Absent, FString(<<"x">>)}]}

\* serde_json::Value at the top level.
Value(t, s, a, o) == [t |-> t, s |-> s, a |-> a, o |-> o]
VNull == Value("null", <<>>, <<>>, EmptyMap)
VString(s) == Value("string", s, <<>>, EmptyMap)
VArray(a) == Value("array", <<>>, a, EmptyMap)
Object(o) == Value("object", <<>>, <<>>, o)
is_object(v) == v.t = "object"

\* McpToolStep::args as the planner can write them.
PlannerArgs == {VNull, VString(<<"x">>)} \cup {Object(o) : o \in Maps}

\* JSON values the text of an LLM reply can parse to.
LlmValues ==
    {VNull, VString(null_text), VArray(<<Item("string", null_text)>>),
     Object(EmptyMap),
     Object([EmptyMap EXCEPT !["city"] = FString(<<"x">>)]),
     Object([EmptyMap EXCEPT !["city"] = FString(<<" ", "N", "U", "L", "L">>)]),
     Object([EmptyMap EXCEPT !["city"] = FString(<<"x">>),
                             !["date"] = FArray(<<Item("string", null_text)>>)])}

\* normalize_null_strings, on each level of a value
normalize_item(it) ==
    IF it.t = "string" /\ is_null_string(it.s) THEN Item("null", <<>>) ELSE it
normalize_items(a) == [i \in 1..Len(a) |-> normalize_item(a[i])]
normalize_field(f) ==
    CASE f.t = "string" -> IF is_null_string(f.s) THEN FNull ELSE f
      [] f.t = "array" -> FArray(normalize_items(f.a))
      [] OTHER -> f
normalize_null_strings(v) ==
    CASE v.t = "string" -> IF is_null_string(v.s) THEN VNull ELSE v
      [] v.t = "array" -> VArray(normalize_items(v.a))
      [] v.t = "object" -> Object([k \in Keys |-> normalize_field(v.o[k])])
      [] OTHER -> v

\* resolve lines 309-318: the planner's non-null keys are put over v
merge(v, input) ==
    IF is_object(input) /\ is_object(v)
    THEN Object([k \in Keys |->
                    IF input.o[k] \notin {Absent, FNull} THEN input.o[k] ELSE v.o[k]])
    ELSE v

ensure_required_fields_present(v, required_fields) ==
    IF ~is_object(v) THEN v
    ELSE Object([k \in Keys |->
                    IF k \in required_fields /\ v.o[k] \in {Absent, FNull}
                    THEN FNull ELSE v.o[k]])

\* CallToolRequestParam::arguments
Some(o) == [some |-> TRUE, o |-> o]
None == [some |-> FALSE, o |-> EmptyMap]

\* call lines 485-503: the required fields the arguments leave open
is_missing(f) ==
    CASE f.t = "absent" -> TRUE
      [] f.t = "null" -> TRUE
      [] f.t = "string" -> trim(f.s) = <<>> \/ is_null_string(f.s)
      [] f.t = "array" -> f.a = <<>>
      [] OTHER -> FALSE
missing_fields(args, required) ==
    IF is_object(args) THEN {f \in required : is_missing(args.o[f])} ELSE {}

\* call lines 508-535
arguments(args, required) ==
    IF missing_fields(args, required) # {}
    THEN LET meta == [k \in Keys |-> IF is_meta(k) THEN args.o[k] ELSE Absent]
         IN  IF meta = EmptyMap THEN None ELSE Some(meta)
    ELSE IF is_object(args) THEN Some(args.o) ELSE None

PrStart ==
    /\ prPc = "idle"
    /\ prIn = VNull
    /\ prReq = {}
    /\ prSid = FALSE
    /\ prOut = VNull
    /\ prArgs = VNull
    /\ prSent = None

\* A tool step of a plan starts to run.
StepBegin ==
    /\ prPc = "idle"
    /\ prPc' = "resolve"
    /\ \E args \in PlannerArgs : prIn' = args
    /\ \E required \in SUBSET ArgKeys : prReq' = required
    /\ \E sid \in BOOLEAN : prSid' = sid
    /\ UNCHANGED <<prOut, prArgs, prSent>>
    /\ UNCHANGED <<ceVars, tmVars, seVars, smVars, mcVars, elVars, wfVars, tcVars, soVars, twVars>>

\* LlmParameterResolver::resolve
Resolve ==
    /\ prPc = "resolve"
    /\ IF is_object(prIn)
       THEN prOut' = prIn /\ prPc' = "resolved"
       ELSE \/ prPc' = "failed" /\ UNCHANGED prOut
            \/ \E fixed_v \in LlmValues :
                  /\ prOut' = ensure_required_fields_present(
                                  merge(normalize_null_strings(fixed_v), prIn), prReq)
                  /\ prPc' = "resolved"
    /\ UNCHANGED <<prIn, prReq, prSid, prArgs, prSent, ceVars, tmVars, seVars, smVars, mcVars, elVars, wfVars, tcVars, soVars, twVars>>

\* McpToolStep::run lines 484-493
InjectSession ==
    /\ prPc = "resolved"
    /\ prArgs' = IF prSid /\ is_object(prOut) /\ prOut.o["session_id"] = Absent
                 THEN Object([prOut.o EXCEPT !["session_id"] = FString(<<"s">>)])
                 ELSE prOut
    /\ prPc' = "call"
    /\ UNCHANGED <<prIn, prReq, prSid, prOut, prSent, ceVars, tmVars, seVars, smVars, mcVars, elVars, wfVars, tcVars, soVars, twVars>>

\* RmcpStdIoClient::call up to the request it builds
CallArguments ==
    /\ prPc = "call"
    /\ prSent' = arguments(prArgs, prReq)
    /\ prPc' = "called"
    /\ UNCHANGED <<prIn, prReq, prSid, prOut, prArgs, ceVars, tmVars, seVars, smVars, mcVars, elVars, wfVars, tcVars, soVars, twVars>>

\* McpToolStep::run has returned; its locals are gone.
StepEnd ==
    /\ prPc \in {"called", "failed"}
    /\ prPc' = "idle"
    /\ prIn' = VNull
    /\ prReq' = {}
    /\ prSid' = FALSE
    /\ prOut' = VNull
    /\ prArgs' = VNull
    /\ prSent' = None
    /\ UNCHANGED <<ceVars, tmVars, seVars, smVars, mcVars, elVars, wfVars, tcVars, soVars, twVars>>

PrNext ==
    \/ StepBegin
    \/ Resolve
    \/ InjectSession
    \/ CallArguments
    \/ StepEnd

(***************************************************************************)
(* The receive loop of RobotClientHandler::create_elicitation on the input *)
(* bus, with events of several sessions                                    *)
(***************************************************************************)
MaxBus == 3
HandlerSessions == {"s1", "web"}

\* create_elicitation line 143: session_id if set, else source
ev_sid(ev) == IF ev.session_id # "none" THEN ev.session_id ELSE ev.source

\* create_elicitation line 144
any_session(a, b) == TRUE
same_session(a, b) == a = b

ElStart ==
    /\ xBus = <<>>
    /\ hPc = "idle"
    /\ hSid = "none"
    /\ hSub = 0
    /\ hPos = 0
    /\ hEv = 0
    /\ hAns = "none"

\* A front-end sends an InputEvent on the bus; its id is its place in xBus.
ElPublish(sid, src) ==
    /\ Len(xBus) < MaxBus
    /\ xBus' = Append(xBus, InputEvent(Len(xBus) + 1, sid, src))
    /\ UNCHANGED <<hPc, hSid, hSub, hPos, hEv, hAns, ceVars, tmVars, seVars, smVars, mcVars, prVars, wfVars, tcVars, soVars, twVars>>

\* create_elicitation lines 98-140: the prompt is published and the handler
\* subscribes; a new receiver sees the events sent from now on.
ElSubscribe(sid) ==
    /\ hPc \in {"idle", "answered"}
    /\ hSid \in {"none", sid}
    /\ hSid' = sid
    /\ hPc' = "waiting"
    /\ hSub' = Len(xBus)
    /\ hPos' = Len(xBus)
    /\ hEv' = 0
    /\ hAns' = "none"
    /\ UNCHANGED <<xBus, ceVars, tmVars, seVars, smVars, mcVars, prVars, wfVars, tcVars, soVars, twVars>>

\* create_elicitation lines 141-153: one turn of the loop.
ElRecv ==
    /\ hPc = "waiting"
    /\ hPos < Len(xBus)
    /\ hPos' = hPos + 1
    /\ LET ev == xBus[hPos + 1]
       IN IF same_session(ev_sid(ev), hSid)
          THEN hPc' = "taken" /\ hEv' = ev.id
          ELSE UNCHANGED <<hPc, hEv>>
    /\ UNCHANGED <<xBus, hSid, hSub, hAns, ceVars, tmVars, seVars, smVars, mcVars, prVars, wfVars, tcVars, soVars, twVars>>

\* create_elicitation lines 154-285: a cancel phrase and text that parses,
\* directly or after the LLM, mark the event consumed and answer Cancel or
\* Accept; otherwise an error is returned and nothing is marked.
ElAnswer(kind) ==
    /\ hPc = "taken"
    /\ hPc' = "answered"
    /\ \/ /\ kind \in {"cancel", "json", "text"}
          /\ consumed' = mark_event_consumed(consumed, hEv)
          /\ hAns' = IF is_cancel_text(kind) THEN "cancel" ELSE "accept"
       \/ /\ kind = "text"
          /\ hAns' = "error"
          /\ UNCHANGED consumed
    /\ UNCHANGED <<xBus, hSid, hSub, hPos, hEv, ceMarked, ceRets, tmVars, seVars, smVars, mcVars, prVars, wfVars, tcVars, soVars, twVars>>

ElNext ==
    \/ \E sid \in SessionIds : \E src \in Sources : ElPublish(sid, src)
    \/ \E sid \in HandlerSessions : ElSubscribe(sid)
    \/ ElRecv
    \/ \E kind \in EventKinds : ElAnswer(kind)

(***************************************************************************)
(* Two handlers of one session on the input bus (mcp/rmcp_client.rs:       *)
(* connect, connect_new and create_elicitation)                            *)
(***************************************************************************)
\* The persistent connection of the client (connect) and a dedicated one
\* (connect_new); both handlers get session_id: self.session_id.clone().
Conns == {"persistent", "dedicated"}
ClientSession == "s1"

TwStart ==
    /\ cPc = [c \in Conns |-> "idle"]
    /\ cPos = [c \in Conns |-> 0]
    /\ cEv = [c \in Conns |-> 0]
    /\ cWith = [c \in Conns |-> {}]

\* create_elicitation lines 98-140 on connection c: the server has raised an
\* elicitation for the call in flight there; the handler publishes the prompt
\* and subscribes, which gives it a receiver of its own.
TwSubscribe(c) ==
    /\ cPc[c] \in {"idle", "accept", "cancel", "error"}
    /\ cPc' = [cPc EXCEPT ![c] = "waiting"]
    /\ cPos' = [cPos EXCEPT ![c] = Len(xBus)]
    /\ cEv' = [cEv EXCEPT ![c] = 0]
    /\ cWith' = [cWith EXCEPT ![c] = {}]
    /\ UNCHANGED <<ceVars, tmVars, seVars, smVars, mcVars, prVars, elVars, wfVars, tcVars, soVars>>

\* create_elicitation lines 141-153: one turn of the loop of connection c's
\* handler; every receiver of the broadcast channel gets every event.
TwRecv(c) ==
    /\ cPc[c] = "waiting"
    /\ cPos[c] < Len(xBus)
    /\ cPos' = [cPos EXCEPT ![c] = @ + 1]
    /\ LET ev == xBus[cPos[c] + 1]
       IN IF same_session(ev_sid(ev), ClientSession)
          THEN /\ cPc' = [cPc EXCEPT ![c] = "taken"]
               /\ cEv' = [cEv EXCEPT ![c] = ev.id]
               /\ cWith' = [cWith EXCEPT ![c] = {d \in Conns \ {c} : cPc[d] = "waiting"}]
          ELSE UNCHANGED <<cPc, cEv, cWith>>
    /\ UNCHANGED <<ceVars, tmVars, seVars, smVars, mcVars, prVars, elVars, wfVars, tcVars, soVars>>

\* create_elicitation lines 154-285 on connection c: a cancel phrase and text
\* that parses, directly or after the LLM, mark the event consumed and answer
\* Cancel or Accept; otherwise an error is returned and nothing is marked.
TwAnswer(c, kind) ==
    /\ cPc[c] = "taken"
    /\ \/ /\ cPc' = [cPc EXCEPT ![c] = IF is_cancel_text(kind) THEN "cancel" ELSE "accept"]
          /\ consumed' = mark_event_consumed(consumed, cEv[c])
       \/ /\ kind = "text"
          /\ cPc' = [cPc EXCEPT ![c] = "error"]
          /\ UNCHANGED consumed
    /\ UNCHANGED <<cPos, cEv, cWith, ceMarked, ceRets,
                   tmVars, seVars, smVars, mcVars, prVars, elVars, wfVars, tcVars, soVars>>

TwNext ==
    \/ \E sid \in SessionIds : \E src \in Sources : ElPublish(sid, src)
    \/ \E c \in Conns : TwSubscribe(c) \/ TwRecv(c)
    \/ \E c \in Conns : \E kind \in EventKinds : TwAnswer(c, kind)

(***************************************************************************)
(* The workflow's Context (core/session.rs execute_workflow and the steps  *)
(* of workflow_steps/mod.rs)                                               *)
(***************************************************************************)
MaxPlan == 3       \* steps of a plan in SpecWf
MaxSpawn == 2      \* background steps of a plan in SpecWf

\* StepSpec with the tool's name: the built-in steps carry none.
Builtin(kind) == [kind |-> kind, name |-> "none", is_background |-> FALSE]
ToolStep(name, bg) == [kind |-> "Tool", name |-> name, is_background |-> bg]
StepSpecs ==
    {Builtin("Memory"), Builtin("Profile"), Builtin("Relationship"),
     ToolStep("t", FALSE), ToolStep("long", TRUE)}

\* The plans of at most MaxPlan steps with at most MaxSpawn background steps.
WfPlans ==
    {p \in UNION {[1..n -> StepSpecs] : n \in 0..MaxPlan} :
        Cardinality({i \in 1..Len(p) : p[i].is_background}) <= MaxSpawn}

\* What ParameterResolver::resolve may return for a step.
ResolvedArgs == {"a1", "a2"}

\* Context::new plus the workflow memory of session.rs lines 205-217: the input
\* text, memory.workflow.current_step_index (1-based here), the absent
\* memory.workflow.history and memory.last_tool_result (0: absent), and the
\* parts of the context no step has touched yet.
WorkflowContext(e) ==
    [input_text |-> e, current_step_index |-> 1, history |-> <<>>,
     last_tool_result |-> 0, touched |-> {}]

\* execute_workflow lines 255-261: every pass of the loop stores its index in
\* memory.workflow.current_step_index before the step is built.
AtStep(c, i) == [c EXCEPT !.current_step_index = i]

\* execute_workflow line 280: Context derives Clone and owns all its fields, so
\* ctx.clone() is a copy of the value.
clone(c) == c

\* execute_workflow lines 280 and 304: ctx and ctx_clone share no storage, so
\* what one task writes to its context leaves the other task's as it was.
aliased(own, written) == written
unshared(own, written) == own

\* MemoryStep, ProfileStep and RelationshipStep write their mark into the
\* context they are given.
touch(c, kind) == [c EXCEPT !.touched = @ \cup {kind}]

\* McpToolStep::run lines 497-511: the history entry of the call about to be
\* made, with the step index read from memory.workflow.current_step_index
\* (result 0: the entry has no result).
push_history(c, tool, args) ==
    [c EXCEPT !.history =
        Append(@, [step_index |-> c.current_step_index, tool |-> tool,
                   args |-> args, result |-> 0])]

\* McpToolStep::run lines 513-531: the value of a successful call is stored as
\* last_tool_result and attached to the last history entry, if there is one.
store_last_only(c, val) == [c EXCEPT !.last_tool_result = val]
store_result(c, val) ==
    [c EXCEPT !.last_tool_result = val,
              !.history = [h \in 1..Len(@) |->
                              IF h = Len(@) THEN [@[h] EXCEPT !.result = val] ELSE @[h]]]

Spawns == 1..MaxSpawn
NoTask == [st |-> "none", at |-> 0, ctx |-> WorkflowContext(0)]

WfStart ==
    /\ wPc = "idle"
    /\ wSteps = <<>>
    /\ wI = 0
    /\ wCtx = WorkflowContext(0)
    /\ wSent = "none"
    /\ wBg = [k \in Spawns |-> NoTask]
    /\ wNext = 1

\* The contexts of the running spawned tasks after the actor wrote `written`
\* to ctx.
TasksAfter(written) ==
    [k \in Spawns |->
        IF wBg[k].st \in {"running", "calling"}
        THEN [wBg[k] EXCEPT !.ctx = unshared(@, written)]
        ELSE wBg[k]]

\* The actor's ctx after a spawned task wrote `written` to ctx_clone; once
\* execute_workflow has returned there is no ctx.
ActorAfter(written) ==
    IF wPc \in {"loop", "call"} THEN unshared(wCtx, written) ELSE wCtx

\* handle_input lines 200-219: the plan of the event (1 stands for its input
\* text) is executed from its first step on a new Context.
WfBegin ==
    /\ wPc = "idle"
    /\ \E plan \in WfPlans : wSteps' = plan
    /\ wI' = 1
    /\ wCtx' = WorkflowContext(1)
    /\ wPc' = "loop"
    /\ UNCHANGED <<wSent, wBg, wNext, ceVars, tmVars, seVars, smVars, mcVars, prVars, elVars, tcVars, soVars, twVars>>

\* execute_workflow lines 255-261, 357-361 and 421-427 for a built-in step: the
\* step writes its mark; RelationshipStep returns Stop, which ends the loop
\* (wCtx keeps the value ctx had when the function returned), the two others
\* return Continue.
WfBuiltin ==
    /\ wPc = "loop"
    /\ wI <= Len(wSteps)
    /\ wSteps[wI].kind # "Tool"
    /\ LET written == touch(AtStep(wCtx, wI), wSteps[wI].kind)
       IN /\ wCtx' = written
          /\ wBg' = TasksAfter(written)
    /\ IF wSteps[wI].kind = "Relationship"
       THEN wPc' = "returned" /\ UNCHANGED wI
       ELSE wI' = wI + 1 /\ UNCHANGED wPc
    /\ UNCHANGED <<wSteps, wSent, wNext, ceVars, tmVars, seVars, smVars, mcVars, prVars, elVars, tcVars, soVars, twVars>>

\* McpToolStep::run lines 478-513 for a foreground Tool step: the resolver
\* fails and the loop breaks, or the entry with the resolved arguments is
\* pushed and the call goes out with the same arguments.
WfToolStart ==
    /\ wPc = "loop"
    /\ wI <= Len(wSteps)
    /\ wSteps[wI].kind = "Tool" /\ ~wSteps[wI].is_background
    /\ \/ /\ wCtx' = AtStep(wCtx, wI)
          /\ wBg' = TasksAfter(wCtx')
          /\ wPc' = "returned"
          /\ UNCHANGED wSent
       \/ \E args \in ResolvedArgs :
             /\ wCtx' = push_history(AtStep(wCtx, wI), wSteps[wI].name, args)
             /\ wBg' = TasksAfter(wCtx')
             /\ wSent' = args
             /\ wPc' = "call"
    /\ UNCHANGED <<wSteps, wI, wNext, ceVars, tmVars, seVars, smVars, mcVars, prVars, elVars, tcVars, soVars, twVars>>

\* McpToolStep::run lines 513-543 and execute_workflow lines 363-434: the call
\* returns a value (the index of the step stands for it), which is stored, and
\* the step returns Continue; or the call fails and the loop breaks.
WfToolReturn ==
    /\ wPc = "call"
    /\ \/ /\ wCtx' = store_result(wCtx, wI)
          /\ wBg' = TasksAfter(wCtx')
          /\ wI' = wI + 1
          /\ wPc' = "loop"
       \/ /\ wPc' = "returned"
          /\ UNCHANGED <<wCtx, wBg, wI>>
    /\ wSent' = "none"
    /\ UNCHANGED <<wSteps, wNext, ceVars, tmVars, seVars, smVars, mcVars, prVars, elVars, tcVars, soVars, twVars>>

\* execute_workflow lines 272-354: a background Tool step is spawned on a
\* clone of ctx and the loop continues.
WfSpawn ==
    /\ wPc = "loop"
    /\ wI <= Len(wSteps)
    /\ wSteps[wI].kind = "Tool" /\ wSteps[wI].is_background
    /\ wNext <= MaxSpawn
    /\ wCtx' = AtStep(wCtx, wI)
    /\ wBg' = [TasksAfter(wCtx') EXCEPT
                  ![wNext] = [st |-> "running", at |-> wI, ctx |-> clone(wCtx')]]
    /\ wNext' = wNext + 1
    /\ wI' = wI + 1
    /\ UNCHANGED <<wPc, wSteps, wSent, ceVars, tmVars, seVars, smVars, mcVars, prVars, elVars, tcVars, soVars, twVars>>

\* execute_workflow: the for loop has run out of steps.
WfEnd ==
    /\ wPc = "loop"
    /\ wI > Len(wSteps)
    /\ wPc' = "returned"
    /\ UNCHANGED <<wSteps, wI, wCtx, wSent, wBg, wNext, ceVars, tmVars, seVars, smVars, mcVars, prVars, elVars, tcVars, soVars, twVars>>

\* The spawned task runs McpToolStep::run on ctx_clone up to the call: the
\* resolver fails, or the entry is pushed and the call goes out.
WfBgStart(k) ==
    /\ wBg[k].st = "running"
    /\ \/ /\ wBg' = [wBg EXCEPT ![k].st = "finished"]
          /\ UNCHANGED wCtx
       \/ \E args \in ResolvedArgs :
             LET written == push_history(wBg[k].ctx, wSteps[wBg[k].at].name, args)
             IN /\ wBg' = [wBg EXCEPT ![k].st = "calling", ![k].ctx = written]
                /\ wCtx' = ActorAfter(written)
    /\ UNCHANGED <<wPc, wSteps, wI, wSent, wNext, ceVars, tmVars, seVars, smVars, mcVars, prVars, elVars, tcVars, soVars, twVars>>

\* The spawned task's call returns: a value is stored in ctx_clone, an error
\* is logged.
WfBgReturn(k) ==
    /\ wBg[k].st = "calling"
    /\ \/ LET written == store_result(wBg[k].ctx, wBg[k].at)
          IN /\ wBg' = [wBg EXCEPT ![k].st = "finished", ![k].ctx = written]
             /\ wCtx' = ActorAfter(written)
       \/ /\ wBg' = [wBg EXCEPT ![k].st = "finished"]
          /\ UNCHANGED wCtx
    /\ UNCHANGED <<wPc, wSteps, wI, wSent, wNext, ceVars, tmVars, seVars, smVars, mcVars, prVars, elVars, tcVars, soVars, twVars>>

WfNext ==
    \/ WfBegin
    \/ WfBuiltin
    \/ WfToolStart
    \/ WfToolReturn
    \/ WfSpawn
    \/ WfEnd
    \/ \E k \in Spawns : WfBgStart(k) \/ WfBgReturn(k)

(***************************************************************************)
(* The task-aware client (core/tasks/client.rs)                            *)
(***************************************************************************)
\* What an argument object holds under "task_id": no such key, a number, or a
\* string; val is the task id the text spells (0: the id of no task).
NoTaskId == [kind |-> "absent", val |-> 0]
NumberId(i) == [kind |-> "number", val |-> i]
StringId(i) == [kind |-> "string", val |-> i]
TaskIdValues == {NoTaskId} \cup {NumberId(i) : i \in 0..MaxTasks} \cup {StringId(i) : i \in 0..MaxTasks}
ToolNames == {"list_running_tasks", "cancel_task", "echo"}

MissingTaskId == "Missing required argument: task_id"
CancelledText == "cancelled successfully"
NotFoundText == "not found"

\* A conversion that also reads a number as the text of its digits.
any_as_str(v) == IF v.kind \in {"string", "number"} THEN {v.val} ELSE {}

\* args.get("task_id").and_then(|v| v.as_str()): the Option as a set.
as_str(v) == IF v.kind = "string" THEN {v.val} ELSE {}

\* anyhow::Error and CallToolResult::success(vec![Content::text(..)]).
CallErr(text) == [kind |-> "Err", text |-> text, id |-> 0, listed |-> {}]
CallSuccess(text, id, listed) == [kind |-> "Ok", text |-> text, id |-> id, listed |-> listed]

\* call_tool_inner, lines 18-44: the result, the registry afterwards, the
\* handles aborted and whether the call was handed to the inner client, whose
\* result is innerRes.
call_tool_inner(ts, name, args, innerRes) ==
    CASE name = "list_running_tasks" ->
            [result |-> CallSuccess("tasks", 0, list_tasks(ts)), tasks |-> ts,
             abort |-> {}, inner |-> FALSE]
      [] name = "cancel_task" ->
            LET task_id == as_str(args.task_id)
            IN IF task_id = {}
               THEN [result |-> CallErr(MissingTaskId), tasks |-> ts, abort |-> {},
                     inner |-> FALSE]
               ELSE LET id == CHOOSE x \in task_id : TRUE
                        c == cancel_task(ts, id)
                    IN [result |-> CallSuccess(IF c.ret THEN CancelledText ELSE NotFoundText,
                                               id, {}),
                        tasks |-> c.tasks, abort |-> c.abort, inner |-> FALSE]
      [] OTHER ->
            [result |-> innerRes, tasks |-> ts, abort |-> {}, inner |-> TRUE]

\* What the inner client can answer a call of the tool with, for the tools the
\* wrapper hands on.
InnerResults(name) ==
    IF name \in {"list_running_tasks", "cancel_task"}
    THEN {CallErr("unknown tool")}
    ELSE {CallErr("tool failed"), CallSuccess("done", 0, {})}

TCStart ==
    /\ tcLast = [n |-> 0, name |-> "none", args |-> [task_id |-> NoTaskId],
                 result |-> CallErr("none")]
    /\ tcInner = [name |-> "none", args |-> [task_id |-> NoTaskId]]

\* A step of the session calls TaskAwareMcpClient::call(tool, args), beside
\* the threads of the Task Manager; cancel_task holds the registry's write
\* lock from the lookup to the return.
TCCall ==
    /\ tcLast.n < MaxCalls
    /\ \E name \in ToolNames : \E v \in TaskIdValues : \E innerRes \in InnerResults(name) :
          LET args == [task_id |-> v]
              r == call_tool_inner(tasks, name, args, innerRes)
          IN /\ tasks' = r.tasks
             /\ aborted' = aborted \cup r.abort
             /\ tcLast' = [n |-> tcLast.n + 1, name |-> name, args |-> args,
                           result |-> r.result]
             /\ tcInner' = IF r.inner THEN [name |-> name, args |-> args] ELSE tcInner
    /\ UNCHANGED <<counter, tmAux>>
    /\ UNCHANGED <<ceVars, seVars, smVars, mcVars, prVars, elVars, wfVars, soVars, twVars>>

TCNext ==
    \/ TCCall
    \/ \E t \in Threads :
          \/ TMAddFetch(t)
          \/ TMAddInsert(t)

(***************************************************************************)
(* Specifications                                                          *)
(***************************************************************************)
Init == CEStart /\ TMStart /\ SEStart /\ SMStart /\ McpStart /\ PrStart /\ ElStart /\ WfStart /\ TCStart /\ SOStart /\ TwStart

SpecCE == Init /\ [][CENext]_vars

SpecTM == Init /\ [][TMNext]_vars

Spec == Init /\ [][SENext]_vars

SpecSM == Init /\ [][SMNext]_vars
SpecRun == Init /\ [][RunNext]_vars
SpecMcp == Init /\ [][McpNext]_vars
SpecArgs == Init /\ [][PrNext]_vars
SpecElicit == Init /\ [][ElNext]_vars
SpecWf == Init /\ [][WfNext]_vars
SpecSMF == Init /\ [][SMFNext]_vars
SpecTC == Init /\ [][TCNext]_vars
SpecSO == Init /\ [][SONext]_vars
SpecTw == Init /\ [][TwNext]_vars

\* The session with the scheduling tokio gives: the actor, a handler that has
\* an event to take and a spawned task each go on when they can, and a call
\* that can return does. The front-end and the server's elicitations are free.
SessionFairness ==
    /\ WF_vars(ActorRecv)
    /\ WF_vars(ActorPerceive)
    /\ WF_vars(ActorIntent)
    /\ WF_vars(ActorListTools)
    /\ WF_vars(ActorDecide)
    /\ WF_vars(ActorPlanEnd)
    /\ WF_vars(ActorBuiltinStep)
    /\ WF_vars(ActorStatus)
    /\ WF_vars(ActorToolStart)
    /\ WF_vars(ActorToolReturn)
    /\ WF_vars(ActorSpawnBg)
    /\ WF_vars(ActorBgAdd)
    /\ \A c \in Calls : WF_vars(HandlerTake(c)) /\ WF_vars(HandlerLlm(c))
    /\ \A k \in BgIds : WF_vars(BgStart(k)) /\ WF_vars(BgReturn(k)) /\ WF_vars(BgRemove(k))
SpecFair == Init /\ [][SENext]_vars /\ SessionFairness

\* C3: after mark_event_consumed(id) the first check_and_remove_consumed_event(id)
\* returns true and every later one returns false until the id is marked again; a
\* check of an id that was never marked returns false and leaves the set as it
\* was; calls on other ids, in any interleaving, do not change these answers.
C3_MarkThenCheckOnce ==
    /\ \A id \in CeIds : \A k \in 1..Len(ceRets[id]) :
          ceRets[id][k] = (k = 1 /\ id \in ceMarked)
    /\ \A id \in CeIds : id \in consumed <=> (id \in ceMarked /\ ceRets[id] = <<>>)

\* An id was marked, checked twice (true, then false) while another id, marked
\* too, is still waiting in the set.
C3_Witness ==
    \E id \in CeIds : \E other \in CeIds \ {id} :
        /\ id \in ceMarked /\ ceRets[id] = <<TRUE, FALSE>>
        /\ other \in consumed

\* C1: the foreground handling of an event (perception, intent, planning,
\* foreground steps) begins only when no other event's foreground handling is
\* under way, and the events begin in the order the session manager received
\* them; two foreground workflows of a session never interleave.
C1_OneAtATime ==
    /\ Cardinality(fgActive) <= 1
    /\ pc \in {"idle", "stopped"} => fgActive = {}
    /\ pc \notin {"idle", "stopped"} => fgActive = {cur}

C1_BeginInOrder ==
    fgBegun' # fgBegun =>
        /\ fgActive = {}
        /\ \A x \in fgBegun : \A y \in fgBegun' \ fgBegun : x < y

C1_SessionLinearization == []C1_OneAtATime /\ [][C1_BeginInOrder]_vars

\* The second event's workflow is inside a tool call, after the first one's
\* workflow has returned.
C1_Witness ==
    /\ fgBegun = {1, 2}
    /\ fgActive = {2}
    /\ cur = 2 /\ pc = "fgCall"

\* C2: an event that an elicitation handler took as its answer (Accept or
\* Cancel) is never given perception, intent, planning or a pending-execution
\* continuation by the session actor.
C2_AtMostOnce == taken \cap fgBegun = {}

\* C4: a step at index i that returns WaitUser makes the actor emit the prompt,
\* store the plan, i and the context in pending_execution and return; the next
\* event the actor handles takes pending_execution, resumes the same plan at
\* index i with input_text replaced by the new event's text, and nothing else
\* sets or clears pending_execution while the actor runs.
C4_SuspendedIsIdle == pending # <<>> => pc = "idle" /\ cur = 0

C4_Suspend ==
    (pending = <<>> /\ pending' # <<>>) =>
        /\ pc = "status" /\ idx <= Len(steps)
        /\ pending' = <<[steps |-> steps, idx |-> idx, ctx |-> ctx]>>
        /\ lastOut' = [type |-> "prompt", ref |-> cur]
        /\ pc' = "idle"

C4_Resume ==
    (pending # <<>> /\ (pending' # pending \/ fgBegun' # fgBegun) /\ pc' # "stopped") =>
        /\ inbox # <<>> /\ inbox' = Tail(inbox)
        /\ pending' = <<>>
        /\ cur' = Head(inbox) /\ fgBegun' = fgBegun \cup {Head(inbox)}
        /\ pc' = "loop"
        /\ steps' = pending[1].steps
        /\ idx' = pending[1].idx
        /\ ctx' = [pending[1].ctx EXCEPT !.input_text = Head(inbox)]

C4_SuspendThenResume ==
    []C4_SuspendedIsIdle /\ [][C4_Suspend /\ C4_Resume]_vars

\* The first event's plan was suspended at its second step, and the second
\* event has resumed it there.
C4_Witness ==
    /\ resumedAt = 2
    /\ cur = 2 /\ pc = "loop" /\ pending = <<>>
    /\ steps = <<MemoryS, WaitS, ProfileS>> /\ idx = 2
    /\ ctx.input_text = 2

\* C5, as stated: whenever pending_execution is set, the next event the actor
\* receives is routed as the continuation of the suspended plan.
C5_NextReceivedResumes ==
    [][(pending # <<>> /\ Len(inbox') < Len(inbox) /\ Head(inbox) # Shutdown) =>
          (pending' = <<>> /\ pc' = "loop" /\ cur' = Head(inbox))]_vars

\* C5, amended: a session holds at most one pending_execution; whenever it is
\* set, the next event the actor receives that is not discarded by the
\* consumed-event or elicitation-active check is routed as the continuation of
\* the suspended plan, a discarded event leaves pending_execution as it is, and
\* no Perception, Intent or Decision Engine call runs while it is set.
C5_NoPlanningWhilePending ==
    /\ Len(pending) <= 1
    /\ pc \in {"perceive", "intent", "Act", "Ignore", "decide"} => pending = <<>>

C5_Route ==
    (pending # <<>> /\ Len(inbox') < Len(inbox) /\ Head(inbox) # Shutdown) =>
        IF Head(inbox) \in consumed \/ is_elicitation_active(active, "s")
        THEN pending' = pending /\ pc' = pc /\ fgBegun' = fgBegun
        ELSE /\ pending' = <<>>
             /\ pc' = "loop" /\ cur' = Head(inbox)
             /\ steps' = pending[1].steps

C5_NextHandledResumes == []C5_NoPlanningWhilePending /\ [][C5_Route]_vars

\* The plan of the first event was suspended after its tool step; the second
\* event was received with pending_execution set and continues that plan, with
\* no planning of its own.
C5_Witness ==
    /\ fgBegun = {1, 2}
    /\ cur = 2 /\ pc = "loop" /\ pending = <<>>
    /\ steps = <<ToolS, WaitS>> /\ resumedAt = 2
    /\ Len(ctx.history) = 1

\* C6: once a background task's step has finished, the task has removed itself
\* and the actor's add_task has been performed, list_tasks does not contain the
\* task's id.
C6_FinishedNotListed ==
    \A k \in BgIds :
        (bgSt[k] = "done" /\ k \in bgReg)
            => k \notin list_tasks(tasks)

\* C7: at a Tool step with is_background = true the actor spawns the step,
\* registers it in the Task Manager, emits the "Started background task" output
\* and goes on to the next step of the plan; it never waits in a call of that
\* step, and going on is possible whatever the spawned task is doing.
C7_NeverCallsBackground ==
    /\ pc = "fgCall" => ~steps[idx].is_background
    /\ pc = "bgAdd" => bgTask \in BgIds /\ ENABLED ActorBgAdd

C7_SpawnAndGoOn ==
    /\ (/\ pc = "loop" /\ idx <= Len(steps)
        /\ steps[idx].kind = "Tool" /\ steps[idx].is_background
        /\ pc' # pc)
           => (pc' = "bgAdd" /\ bgSt'[bgTask'] = "running" /\ idx' = idx)
    /\ (pc = "bgAdd" /\ pc' # pc)
           => /\ pc' = "loop" /\ idx' = idx + 1 /\ steps' = steps
              /\ bgTask \in list_tasks(tasks')
              /\ lastOut' = [type |-> "started", ref |-> bgTask]
              /\ bgReg' = bgReg \cup {bgTask}

C7_BackgroundNonBlocking == []C7_NeverCallsBackground /\ [][C7_SpawnAndGoOn]_vars

\* The step after a background step has finished (the plan index is two past
\* the background step's) while the background task is still in its call.
C7_Witness ==
    \E k \in BgIds :
        /\ bgSt[k] = "calling"
        /\ bgOf[k].ev = cur /\ pc = "loop"
        /\ idx >= bgOf[k].idx + 2

\* C10: the Session Manager keeps at most one live actor per session key
\* (event.session_id if set, else event.source); a dispatch whose send to the
\* stored sender succeeds creates neither an actor nor an MCP client; and for a
\* key whose actor has not ended, however many dispatches ran concurrently,
\* exactly one actor was created and every dispatched event was sent to it,
\* once.
SMKeys == {SessionKey(InputEvent(0, sid, src)) : sid \in SessionIds, src \in Sources}

ActorsOf(key) == {a \in DOMAIN smActors : smActors[a].key = key}

Completed(e) == \A d \in Dispatchers : dPc[d] = "idle" \/ dEv[d].id # e.id

TimesSent(id) ==
    Cardinality({<<a, i>> \in (DOMAIN smActors) \X (1..MaxDispatch + 1) :
                    i <= Len(smActors[a].sent) /\ smActors[a].sent[i] = id})

C10_OneLiveActor ==
    \A key \in SMKeys :
        /\ Cardinality({a \in ActorsOf(key) : smActors[a].alive}) <= 1
        /\ \A a \in ActorsOf(key) :
              smActors[a].alive => (key \in DOMAIN smSessions /\ smSessions[key] = a)

C10_AllDelivered ==
    \A key \in SMKeys :
        (\A a \in ActorsOf(key) : smActors[a].alive) =>
            /\ Cardinality(ActorsOf(key)) <= 1
            /\ \A e \in smLog :
                  (SessionKey(e) = key /\ Completed(e)) =>
                      /\ TimesSent(e.id) = 1
                      /\ \E a \in ActorsOf(key) : \E i \in 1..Len(smActors[a].sent) :
                            smActors[a].sent[i] = e.id

C10_SendNeverCreates ==
    /\ \A d \in Dispatchers :
          (dPc[d] \in {"fast", "slow"} /\ dPc'[d] = "idle") =>
              /\ Len(smActors') = Len(smActors)
              /\ smClients' = smClients
              /\ smSessions' = smSessions
    /\ Len(smActors') # Len(smActors) =>
          \E d \in Dispatchers :
              /\ dPc[d] = "factory"
              /\ ~SenderLive(smSessions, smActors, SessionKey(dEv[d]))
              /\ Len(smActors') = Len(smActors) + 1
              /\ smClients' = smClients + 1

C10_OneActorPerSession ==
    [](C10_OneLiveActor /\ C10_AllDelivered) /\ [][C10_SendNeverCreates]_vars

\* Two dispatches raced for a session that did not exist: one created the
\* actor, the other found it on its second look under the write lock, and a
\* third event went through the fast path; the one actor holds all three.
C10_Witness ==
    /\ Len(smActors) = 1
    /\ Len(smActors[1].sent) = 3
    /\ {smPath[smActors[1].sent[i]] : i \in 1..3} = {"create", "slow", "fast"}

\* C11: when the stored sender of a session key is closed (its actor has
\* ended), the next dispatch for that key creates a new actor, stores the new
\* sender in place of the old one and sends the triggering event to the new
\* actor; nothing is sent into a closed channel, and the stored sender is
\* always that of the newest actor of its key, so later dispatches reach it.
C11_StoredIsNewest ==
    \A key \in DOMAIN smSessions :
        /\ smSessions[key] \in ActorsOf(key)
        /\ \A a \in ActorsOf(key) : a <= smSessions[key]

C11_Recreate ==
    /\ \A a \in DOMAIN smActors :
          smActors'[a].sent # smActors[a].sent =>
              /\ smActors[a].alive
              /\ \E d \in Dispatchers :
                    /\ dPc[d] \in {"fast", "slow"}
                    /\ SessionKey(dEv[d]) \in DOMAIN smSessions
                    /\ smSessions[SessionKey(dEv[d])] = a
                    /\ smActors'[a].sent = Append(smActors[a].sent, dEv[d].id)
    /\ \A d \in Dispatchers :
          (/\ dPc[d] = "fast" /\ dPc'[d] # "fast"
           /\ SessionKey(dEv[d]) \in DOMAIN smSessions
           /\ ~smActors[smSessions[SessionKey(dEv[d])]].alive) => dPc'[d] = "slow"
    /\ \A d \in Dispatchers :
          (/\ dPc[d] = "factory" /\ dPc'[d] # "factory"
           /\ SessionKey(dEv[d]) \in DOMAIN smSessions) =>
              LET key == SessionKey(dEv[d])
                  new == Len(smActors) + 1
              IN /\ ~smActors[smSessions[key]].alive
                 /\ Len(smActors') = new
                 /\ smSessions'[key] = new
                 /\ smActors'[new].key = key /\ smActors'[new].alive
                 /\ smActors'[new].sent = <<dEv[d].id>>

C11_ChannelClosedRecreates == []C11_StoredIsNewest /\ [][C11_Recreate]_vars

\* The first actor of a key has ended; the dispatch that found its channel
\* closed created a second actor, which got that event and a later one.
C11_Witness ==
    /\ Len(smActors) = 2
    /\ smActors[1].key = smActors[2].key
    /\ ~smActors[1].alive /\ smActors[2].alive
    /\ Len(smActors[2].sent) = 2
    /\ smPath[smActors[2].sent[1]] = "create"
    /\ smPath[smActors[2].sent[2]] = "fast"

\* ---------------------------------------------------------------------------
\* C12: when the answering event is a cancel phrase, the elicitation handler
\* marks that event consumed, publishes a tool_cancel output for it, notifies
\* the server that the recorded request id is cancelled when one is recorded
\* (and sends no notification when none is), and returns Cancel; a cancel
\* phrase is never handed to the LLM and never answered with Accept.
C12_LlmOnlyForOtherText ==
    \A c \in Calls : callSt[c] = "llm" => evKind[elEv[c]] # "cancel"

C12_CancelTake ==
    \A c \in Calls :
        (callSt[c] = "elicit" /\ callSt'[c] # "elicit"
            /\ evKind[bus[elPos[c] + 1]] = "cancel")
        => /\ bus[elPos[c] + 1] \in consumed'
           /\ lastOut' = [type |-> "tool_cancel", ref |-> bus[elPos[c] + 1]]
           /\ elRes'[c].action = "cancel"
           /\ elRes'[c].note = (IF callSt[0] # "idle" THEN 1 ELSE 0)
           /\ callSt'[c] \in {"open", "cancelled"}

C12_ElicitationCancel == []C12_LlmOnlyForOtherText /\ [][C12_CancelTake]_vars

C12_Witness ==
    /\ elRes[0].action = "cancel"
    /\ elRes[0].note = 1
    /\ lastOut.type = "tool_cancel"
    /\ evKind[lastOut.ref] = "cancel"
    /\ lastOut.ref \in consumed

\* ---------------------------------------------------------------------------
\* C13: when the user answers a foreground tool's elicitation with a cancel
\* phrase, the cancelled tool step emits no OutputEvent of its own: the
\* return of a foreground call whose elicitation was answered with Cancel
\* leaves the published outputs as they are.
C13_CancelledStepSilent ==
    [][(pc = "fgCall" /\ elRes[0].action = "cancel" /\ pc' # "fgCall")
        => lastOut' = lastOut]_vars

\* ---------------------------------------------------------------------------
\* C14: from the moment create_elicitation for the session starts waiting for
\* the user's answer until it returns, is_elicitation_active(session) is true.
C14_ActiveWhileWaiting ==
    \A c \in Calls :
        callSt[c] \in {"elicit", "llm"} => is_elicitation_active(active, "s")

C16_TakesNextMessage ==
    (pc = "idle" /\ inbox # <<>>) => ENABLED (ActorRecv \/ ActorShutdown)

C16_StopsOnShutdown ==
    (pc # "stopped" /\ pc' = "stopped") =>
        (pc = "idle" /\ inbox # <<>> /\ Head(inbox) = Shutdown)

C16_FailureReturnsToInbox ==
    (cur # 0 /\ cur' = 0 /\ lastEnd' = "failed") => pc' = "idle"

C16_OnlyShutdownEnds ==
    []C16_TakesNextMessage /\ [][C16_StopsOnShutdown /\ C16_FailureReturnsToInbox]_vars

\* The handling of the first event failed, and the actor is handling the
\* second one.
C16_Witness ==
    /\ lastEnd = "failed"
    /\ fgBegun = {1, 2}
    /\ cur = 2
    /\ pc \notin {"idle", "stopped"}

\* ---------------------------------------------------------------------------
\* C17: within one workflow the foreground steps run in plan order. While the
\* actor is between steps no foreground call is in flight and every tool step
\* it has started has returned and has a smaller index than the next one;
\* while a foreground call is in flight it is the call of the step at the
\* current index, after those of smaller indexes have returned; the index of
\* the step being executed only stays or goes up by one, and the index a
\* suspended plan resumes at is the one it was suspended at.
C17_EarlierStepsReturned ==
    /\ pc \in {"loop", "bgAdd"} =>
          /\ callSt[0] = "idle"
          /\ \A h \in 1..Len(ctx.history) :
                ctx.history[h].result /\ ctx.history[h].step_index < idx
    /\ pc = "status" =>
          /\ callSt[0] = "idle"
          /\ \A h \in 1..Len(ctx.history) :
                ctx.history[h].result /\ ctx.history[h].step_index <= idx
    /\ pc = "fgCall" =>
          /\ Len(ctx.history) >= 1
          /\ ctx.history[Len(ctx.history)].step_index = idx
          /\ \A h \in 1..(Len(ctx.history) - 1) :
                ctx.history[h].result /\ ctx.history[h].step_index < idx

C17_IndexNeverDecreases ==
    /\ (cur # 0 /\ cur' = cur /\ pc # "decide") => idx' \in {idx, idx + 1}
    /\ (pending = <<>> /\ pending' # <<>>) => pending'[1].idx = idx
    /\ (pending # <<>> /\ pending' = <<>> /\ pc' = "loop") => idx' = pending[1].idx

C17_PlanOrder == []C17_EarlierStepsReturned /\ [][C17_IndexNeverDecreases]_vars

\* A plan suspended at its second step has been resumed there and has gone on
\* to its third step.
C17_Witness ==
    /\ resumedAt = 2
    /\ steps = <<MemoryS, WaitS, ProfileS>>
    /\ idx = 3
    /\ pc = "loop"

\* ---------------------------------------------------------------------------
\* C18: the output of a foreground step is dispatched before the step's status
\* takes effect. When the run of a step is over, its output, if it has one,
\* has been sent to the handlers while the index, pending_execution and the
\* workflow are still as they were; only after that does Continue move on to
\* the next step, Stop end the plan, or WaitUser emit the prompt and store
\* pending_execution.
C18_ResultAwaitsStatus ==
    /\ pc = "status" => res.status \in {"Continue", "Stop", "WaitUser"}
    /\ pc # "status" => res = NoResult

C18_OutputFirst ==
    (pc # "status" /\ pc' = "status") =>
        /\ res'.output # NoOutput => lastOut' = res'.output
        /\ idx' = idx /\ cur' = cur /\ steps' = steps /\ pending' = pending

C18_StatusNext ==
    /\ (pc = "status" /\ pc' # "status") =>
          CASE res.status = "Continue" ->
                 pc' = "loop" /\ idx' = idx + 1 /\ lastOut' = lastOut
            [] res.status = "Stop" ->
                 pc' = "idle" /\ pending' = pending /\ lastOut' = lastOut
            [] res.status = "WaitUser" ->
                 /\ pc' = "idle"
                 /\ lastOut' = [type |-> "prompt", ref |-> cur]
                 /\ pending' = <<[steps |-> steps, idx |-> idx, ctx |-> ctx]>>
    /\ (pending = <<>> /\ pending' # <<>>) => pc = "status"

C18_OutputBeforeStatus ==
    []C18_ResultAwaitsStatus /\ [][C18_OutputFirst /\ C18_StatusNext]_vars

\* A step has returned WaitUser together with an output: the output is out,
\* the prompt and pending_execution are not yet.
C18_Witness ==
    /\ pc = "status"
    /\ res.status = "WaitUser"
    /\ res.output = [type |-> "wait", ref |-> cur]
    /\ lastOut = res.output
    /\ pending = <<>>

\* ---------------------------------------------------------------------------
\* C19: an operation on the persistent connection makes at most two attempts.
\* When its first attempt fails with a transport-level error it drops the
\* cached connection and, once a connection is cached again, makes exactly one
\* more attempt, on a connection other than the first one, whose result is
\* returned as it is; a first attempt that succeeds or fails with another
\* error returns at once, with no retry and with the cache left as it is; and
\* the cache is emptied only by an operation whose first attempt failed with
\* a transport-level error.
C19_TransportTexts == {TransportClosed, UnexpectedEof}

C19_AtMostTwoAttempts ==
    \A t \in Callers :
        /\ Len(mTries[t]) <= 2
        /\ Len(mTries[t]) = 2 =>
              /\ ~mFirst[t].ok /\ mFirst[t].text \in C19_TransportTexts
              /\ mTries[t][2] # mTries[t][1]
        /\ mPc[t] = "drop" => ~mFirst[t].ok /\ mFirst[t].text \in C19_TransportTexts

C19_Attempts ==
    \A t \in Callers :
        /\ (Len(mTries[t]) = 0 /\ Len(mTries'[t]) = 1) =>
              IF ~mFirst'[t].ok /\ mFirst'[t].text \in C19_TransportTexts
              THEN mPc'[t] = "drop"
              ELSE mPc'[t] = "done" /\ mOut'[t] = mFirst'[t] /\ service' = service
        /\ (mPc[t] = "drop" /\ mPc'[t] # "drop") => service' = 0
        /\ (Len(mTries[t]) = 1 /\ Len(mTries'[t]) = 2) =>
              mPc'[t] = "done" /\ service' = service

C19_CacheDroppedOnlyOnTransport ==
    (service # 0 /\ service' = 0) => \E t \in Callers : mPc[t] = "drop"

C19_ReconnectPolicy ==
    []C19_AtMostTwoAttempts /\ [][C19_Attempts /\ C19_CacheDroppedOnlyOnTransport]_vars

\* An operation whose first attempt failed at the transport level has
\* succeeded at its second attempt, on another connection.
C19_Witness ==
    \E t \in Callers :
        /\ mPc[t] = "done"
        /\ Len(mTries[t]) = 2
        /\ mTries[t][1] # mTries[t][2]
        /\ mFirst[t].text \in C19_TransportTexts
        /\ mOut[t].ok

\* ---------------------------------------------------------------------------
\* C20: when the request of a tool call ends as cancelled, call returns a
\* success result with a tool_cancel text, on the persistent and on the
\* dedicated connection alike: a cancellation is never returned as an error,
\* and on the persistent connection it ends the operation at the attempt it
\* occurred in, without dropping the cached connection.
C20_CancelledIsSuccess ==
    \A t \in Callers :
        /\ mOut[t].raw = "cancelled" => mOut[t].ok /\ mOut[t].val = "tool_cancel"
        /\ mFirst[t].raw = "cancelled" => mPc[t] = "done" /\ mOut[t] = mFirst[t]
        /\ (mPc[t] = "done" /\ ~mOut[t].ok) => mOut[t].text # TaskCancelled

C20_NoRetryOnCancel ==
    \A t \in Callers :
        (Len(mTries'[t]) = Len(mTries[t]) + 1 /\ mOut'[t].raw = "cancelled")
            => mPc'[t] = "done" /\ service' = service

C20_ProtocolCancel == []C20_CancelledIsSuccess /\ [][C20_NoRetryOnCancel]_vars

\* One call was cancelled on the persistent connection and one on a dedicated
\* connection; both returned the tool_cancel success.
C20_Witness ==
    \E t, u \in Callers :
        /\ mOp[t] = "call_tool" /\ mOp[u] = "call_tool_dedicated"
        /\ mPc[t] = "done" /\ mPc[u] = "done"
        /\ mOut[t].raw = "cancelled" /\ mOut[u].raw = "cancelled"
        /\ mOut[t].val = "tool_cancel" /\ mOut[u].val = "tool_cancel"

\* C21: call(tool, args) invokes the tool with no arguments at all when a required
\* field of the tool is absent from args or is null, an empty string, the string
\* "null" or an empty array; otherwise an object args goes to the server unchanged.
\* Violated: call keeps the session_id key and every key starting with "__" of
\* such args and sends an object made of them, and McpToolStep::run has put a
\* session_id into every argument object of a session's step.
C21_LeftOpen(f) ==
    f \in {Absent, FNull, FString(<<>>), FString(null_text), FArray(<<>>)}
C21_NoArgumentsWhenRequiredOpen ==
    prPc = "called" /\ is_object(prArgs) =>
        IF \E f \in prReq : C21_LeftOpen(prArgs.o[f])
        THEN prSent = None
        ELSE prSent = Some(prArgs.o)

\* C22: whenever the Parameter Resolver has returned successfully, for any input
\* args (null, a string or an object), its result is an object whose keys include
\* every required field of the tool.
\* Violated: resolve returns an object input as it is, before the required fields
\* are looked at; and a reply of the LLM that parses to something else than an
\* object is returned as it is.
C22_Returned == prPc \in {"resolved", "call", "called"}
C22_RequiredFieldsPresent ==
    C22_Returned => is_object(prOut) /\ \A f \in prReq : prOut.o[f] # Absent

\* C23: whenever the Parameter Resolver has returned successfully, no string at
\* any depth of its output equals "null" after trimming and ignoring case, for
\* any input args, objects of the planner included.
\* Violated: resolve returns an object input before normalize_null_strings runs.
C23_NullStringIn(v) ==
    \/ v.t = "string" /\ is_null_string(v.s)
    \/ \E i \in 1..Len(v.a) : v.a[i].t = "string" /\ is_null_string(v.a[i].s)
    \/ \E k \in Keys :
          \/ v.o[k].t = "string" /\ is_null_string(v.o[k].s)
          \/ \E i \in 1..Len(v.o[k].a) :
                v.o[k].a[i].t = "string" /\ is_null_string(v.o[k].a[i].s)
C23_NoNullStringLeft == C22_Returned => ~C23_NullStringIn(prOut)

\* C24: when a cancel phrase answers an elicitation, the cancelled notification
\* names the request id of the very tool call that raised the elicitation, never
\* the id of another outstanding call of the session, and the recorded id is
\* cleared once its call has returned.
\* Violated: the only id ever recorded is that of the call on the persistent
\* connection (the foreground call, 0); the handler of a dedicated connection
\* reads the same SharedCtx and notifies that id for the elicitation of a
\* background call.
C24_NotifiedOwnRequest ==
    \A c \in Calls :
        elRes[c].action = "cancel" /\ elRes[c].note # 0 =>
            /\ c = 0
            /\ elRes[c].note = 1

\* C25: a call for a long-running tool goes out on a newly opened dedicated
\* connection, never on the cached one, and it does not hold the lock of the
\* persistent connection while it awaits its response: a call for a tool that
\* is not long-running can be sent on the persistent connection, and can get
\* its response, while the long-running call is still in flight.
C25_LongRunning(t) == mOp[t] = "call_tool_dedicated"

C25_OwnConnection ==
    \A t \in Callers :
        C25_LongRunning(t) =>
            /\ mPc[t] \in {"connect_new", "await_new", "done"}
            /\ lock # t
            /\ mTries[t] = <<>>
            /\ mPc[t] = "await_new" =>
                  /\ mConn[t] \notin {0, service}
                  /\ \A u \in Callers \ {t} :
                        /\ mConn[u] # mConn[t]
                        /\ \A i \in 1..Len(mTries[u]) : mTries[u][i] # mConn[t]

C25_OthersGoOn ==
    \A t \in Callers : \A u \in Callers \ {t} :
        mPc[t] = "await_new" =>
            /\ mPc[u] = "run" => ENABLED McpAttempt(u)
            /\ mPc[u] = "await" /\ ~mElicit[u] => ENABLED McpResponse(u)

C25_NewlyOpened ==
    \A t \in Callers :
        mPc[t] = "connect_new" /\ mPc'[t] = "await_new" =>
            /\ mConn'[t] = connNext
            /\ connNext' = connNext + 1
            /\ lock' = lock
            /\ service' = service

C26_InFlight == {t \in Callers : mPc[t] = "await"}

C26_OneInFlight ==
    /\ Cardinality(C26_InFlight) <= 1
    /\ \A t \in C26_InFlight : lock = t /\ service # 0 /\ mConn[t] = service
    /\ lock # "none" => lock \in C26_InFlight

C26_SecondWaits ==
    \A t \in C26_InFlight : \A u \in Callers :
        ~ENABLED McpAttempt(u) /\ ~ENABLED McpEnsure(u) /\ ~ENABLED McpDrop(u)

C26_CacheKept ==
    /\ service' # service => service = 0 \/ service' = 0
    /\ \A t \in Callers : (mPc[t] = "run" /\ mPc'[t] = "await") => C26_InFlight = {}
    /\ \A t \in C26_InFlight : service' = service

C26_Serialized ==
    []C26_OneInFlight /\ []C26_SecondWaits /\ [][C26_CacheKept]_vars

\* A tool call on the persistent connection is held open by an elicitation
\* while another caller's operation waits for the lock.
C26_Witness ==
    \E t \in Callers : \E u \in Callers \ {t} :
        /\ mPc[t] = "await" /\ mElicit[t]
        /\ mPc[u] = "run" /\ service # 0

\* C27: the elicitation handler takes as its answer the first event sent on
\* the input bus after it subscribed whose session (session_id if set, else
\* source) is the client's session; events of other sessions are passed over,
\* never taken as the answer and never marked consumed.
C27_Took == hPc \in {"taken", "answered"}

C27_FirstOfSession ==
    C27_Took =>
        /\ hEv \in (hSub + 1)..Len(xBus)
        /\ hPos = hEv
        /\ ev_sid(xBus[hEv]) = hSid
        /\ \A i \in (hSub + 1)..(hEv - 1) : ev_sid(xBus[i]) # hSid

C27_OthersUntouched ==
    /\ ~C27_Took => hEv = 0
    /\ \A id \in consumed : id \in 1..Len(xBus) /\ ev_sid(xBus[id]) = hSid
    /\ hPc = "waiting" => \A i \in (hSub + 1)..hPos : ev_sid(xBus[i]) # hSid

C27_OnlyTheAnswerMarked ==
    consumed' # consumed => hPc = "taken" /\ consumed' = consumed \cup {hEv}

C29_ReceivesConsumed ==
    /\ inbox # <<>>
    /\ inbox' = Tail(inbox)
    /\ Head(inbox) \in consumed

C29_OnlyRemoves ==
    C29_ReceivesConsumed =>
        /\ consumed' = consumed \ {Head(inbox)}
        /\ pc = "idle" /\ pc' = "idle"
        /\ UNCHANGED <<pending, cur, steps, idx, ctx, tools, res, lastOut>>
        /\ UNCHANGED <<fgBegun, fgActive, callSt, bgSt, tasks>>

C29_ConsumedCheckFirst == [][C29_OnlyRemoves]_vars

\* The answer to the tool step's elicitation was taken by the handler and then
\* dropped by the actor's check while the plan waited in pending_execution.
C29_Witness ==
    /\ pc = "idle"
    /\ pending # <<>>
    /\ \E e \in taken :
          /\ e \notin consumed
          /\ e \notin fgBegun
          /\ \A i \in 1..Len(inbox) : inbox[i] # e
          /\ \E i \in 1..Len(bus) : bus[i] = e

\* C30: the elicitation handler marks the answering event consumed exactly
\* when it returns Accept or Cancel. A cancel phrase is answered with Cancel and
\* text that parses as JSON with Accept; for other text the answer is Accept
\* when the LLM's transformation parses, and an error when it does not parse or
\* the LLM call fails, and with an error the Consumed-Event Set is unchanged.
\* Nothing else adds an id to the set.
C30_Returns(c) ==
    /\ callSt[c] \in {"elicit", "llm"}
    /\ callSt'[c] \notin {"elicit", "llm"}

C30_Answering(c) == IF callSt[c] = "llm" THEN elEv[c] ELSE bus[elPos[c] + 1]

C30_MarkedWithAnswer ==
    \A c \in Calls :
        C30_Returns(c) =>
            LET e == C30_Answering(c)
                a == elRes'[c].action
            IN /\ a \in {"accept", "cancel", "error"}
               /\ a = "cancel" <=> is_cancel_text(evKind[e])
               /\ parses_as_json(evKind[e]) => a = "accept"
               /\ a \in {"accept", "cancel"} => consumed' = consumed \cup {e}
               /\ a = "error" => consumed' = consumed /\ callSt[c] = "llm"

C30_MarkedOnlyWithAnswer ==
    consumed' \ consumed # {} =>
        \E c \in Calls :
            /\ C30_Returns(c)
            /\ elRes'[c].action \in {"accept", "cancel"}
            /\ consumed' \ consumed = {C30_Answering(c)}

C30_ConsumedIffAnswered == [][C30_MarkedWithAnswer /\ C30_MarkedOnlyWithAnswer]_vars

\* The handler returned an error for an event that is neither a cancel phrase
\* nor JSON, and the event is not in the Consumed-Event Set: the actor has it
\* still in its inbox.
C30_Witness ==
    \E c \in Calls :
        /\ elRes[c].action = "error"
        /\ callSt[c] = "open"
        /\ \E e \in 1..Len(bus) :
              /\ evKind[e] = "text"
              /\ e \notin consumed
              /\ e \notin taken
              /\ \E i \in 1..Len(inbox) : inbox[i] = e

\* C28: the entries of the Consumed-Event Set are transient: every id that is
\* marked consumed is removed again by the actor's check of that event, so no
\* id stays in the set for ever. Stated for the behaviours in which the session
\* does not wait for ever for the user's answer to an elicitation (the actor
\* cannot check anything while its foreground call is held open).
\* Violated: the actor can have checked an event before a handler marks it (the
\* answer to the elicitation of a background call, which does not hold the
\* actor); the id is then never checked again.
C28_AwaitsUser ==
    \E c \in Calls : callSt[c] = "elicit" /\ elPos[c] >= Len(bus)

C28_EventuallyRemoved ==
    \A e \in 1..MaxEvents : []<>(e \notin consumed \/ C28_AwaitsUser)

\* ---------------------------------------------------------------------------
\* C31: when a foreground step returns an error (the resolver of a tool step
\* fails, or its call returns an error), the plan ends there: the actor is back
\* at its inbox with no plan, no call in flight and no task being spawned, no
\* output was emitted for the step, pending_execution is empty, and the next
\* event the actor handles goes to Perception, that is, it is planned afresh.
C31_ResolverFails ==
    /\ pc = "loop"
    /\ idx <= Len(steps)
    /\ steps[idx].kind = "Tool" /\ ~IsBackground(steps[idx])
    /\ <<pc, idx>>' # <<pc, idx>>
    /\ pc' # "fgCall"

C31_CallFails ==
    /\ pc = "fgCall"
    /\ callSt[0] # "idle" /\ callSt'[0] = "idle"
    /\ res' = NoResult

C31_PlanEnds ==
    (C31_ResolverFails \/ C31_CallFails) =>
        /\ pc' = "idle" /\ cur' = 0 /\ steps' = <<>>
        /\ lastEnd' = "failed"
        /\ lastOut' = lastOut
        /\ pending' = <<>>
        /\ callSt'[0] = "idle"
        /\ bgVars' = bgVars

C31_NoPlanAtInbox ==
    pc = "idle" =>
        /\ steps = <<>> /\ cur = 0 /\ callSt[0] = "idle" /\ bgTask = 0
        /\ lastEnd = "failed" => pending = <<>>

C31_PlansAfresh ==
    (pc = "idle" /\ lastEnd = "failed" /\ pc' # "idle") =>
        /\ pc' = "perceive"
        /\ cur' = Head(inbox)
        /\ steps' = <<>> /\ pending' = <<>> /\ resumedAt' = 0

C31_StepFailureEndsPlan ==
    []C31_NoPlanAtInbox /\ [][C31_PlanEnds /\ C31_PlansAfresh]_vars

\* The foreground call of the first event raised an elicitation and then
\* returned an error (the elicitation prompt is still the last output, so the
\* step emitted none), and the actor has taken the second event to Perception.
C31_Witness ==
    /\ lastEnd = "failed"
    /\ lastOut = [type |-> "elicitation", ref |-> 0]
    /\ fgBegun = {1, 2}
    /\ cur = 2 /\ pc = "perceive"
    /\ pending = <<>>

\* ---------------------------------------------------------------------------
\* C32: a RelationshipStep always returns Stop with an output. When a
\* foreground step has returned Stop, its output has been dispatched by the
\* time the status is looked at, and the status ends the plan: the actor is
\* back at its inbox, the steps after the stopping one are dropped without
\* being run or spawned, and pending_execution stays empty.
C32_RelationshipStops ==
    (pc = "loop" /\ pc' = "status" /\ steps[idx].kind = "Relationship") =>
        /\ res'.status = "Stop"
        /\ res'.output # NoOutput
        /\ lastOut' = res'.output

C32_StopEndsPlan ==
    (pc = "status" /\ res.status = "Stop" /\ <<pc, idx>>' # <<pc, idx>>) =>
        /\ pc' = "idle" /\ cur' = 0 /\ steps' = <<>>
        /\ lastEnd' = "returned"
        /\ pending = <<>> /\ pending' = <<>>
        /\ lastOut' = lastOut
        /\ callSt' = callSt
        /\ bgVars' = bgVars

C32_NoPlanAfterStop ==
    pc = "idle" => steps = <<>> /\ cur = 0 /\ bgTask = 0

C32_StopTerminatesPlan ==
    []C32_NoPlanAfterStop /\ [][C32_RelationshipStops /\ C32_StopEndsPlan]_vars

\* The Relationship step of <<Memory, Relationship, background Tool>> has
\* stopped the plan of the first event: its output is the last one, no
\* background task was spawned, and the actor is at its inbox.
C32_Witness ==
    /\ lastOut = [type |-> "relationship", ref |-> 1]
    /\ lastEnd = "returned"
    /\ pc = "idle"
    /\ pending = <<>>
    /\ bgNext = 1
    /\ fgBegun = {1}

\* ---------------------------------------------------------------------------
\* C33: a background step runs on a clone of the Context taken when it is
\* spawned. The clone is the foreground Context of that moment; a write of the
\* spawned task (its history entry, its result, last_tool_result) changes
\* neither the actor's Context nor another task's, a write of a foreground
\* step changes no spawned task's Context; so the foreground Context holds
\* entries and results of foreground steps only, and a task's Context holds
\* what the plan had written before the spawn plus the task's own entry.
C33_Spawned(k) == wBg[k].st # "none"

C33_CloneAtSpawn ==
    \A k \in Spawns :
        (~C33_Spawned(k) /\ C33_Spawned(k)') =>
            /\ wBg'[k].ctx = wCtx'
            /\ wBg'[k].at = wI
            /\ wCtx'.current_step_index = wI

C33_TaskWritesStay ==
    \A k \in Spawns :
        (C33_Spawned(k) /\ wBg'[k] # wBg[k]) =>
            /\ wCtx' = wCtx
            /\ \A j \in Spawns \ {k} : wBg'[j] = wBg[j]

C33_ActorWritesStay ==
    wCtx' # wCtx => \A k \in Spawns : C33_Spawned(k) => wBg'[k] = wBg[k]

C33_ForegroundOnly ==
    /\ \A h \in 1..Len(wCtx.history) :
          /\ ~wSteps[wCtx.history[h].step_index].is_background
          /\ wCtx.history[h].result \in {0, wCtx.history[h].step_index}
    /\ wCtx.last_tool_result # 0 => ~wSteps[wCtx.last_tool_result].is_background

C33_AsAtSpawn ==
    \A k \in Spawns : C33_Spawned(k) =>
        LET c == wBg[k].ctx
            at == wBg[k].at
        IN /\ c.current_step_index = at
           /\ c.touched = {wSteps[i].kind : i \in {j \in 1..(at - 1) : wSteps[j].kind # "Tool"}}
           /\ \A h \in 1..Len(c.history) :
                 \/ /\ c.history[h].step_index < at
                    /\ ~wSteps[c.history[h].step_index].is_background
                    /\ c.history[h].result = c.history[h].step_index
                 \/ /\ h = Len(c.history)
                    /\ c.history[h].step_index = at
                    /\ wBg[k].st \in {"calling", "finished"}
           /\ c.last_tool_result # at =>
                 \/ c.last_tool_result = 0
                 \/ /\ c.last_tool_result < at
                    /\ ~wSteps[c.last_tool_result].is_background

C33_BackgroundOnClone ==
    /\ []C33_ForegroundOnly
    /\ []C33_AsAtSpawn
    /\ [][C33_CloneAtSpawn /\ C33_TaskWritesStay /\ C33_ActorWritesStay]_vars

\* The first step of the plan was spawned; its task has pushed its entry and
\* stored its result, the foreground has run a Memory step and a tool step
\* since, and neither Context shows the other's writes.
C33_Witness ==
    /\ wPc = "loop" /\ wI = 4
    /\ wBg[1].st = "finished" /\ wBg[1].at = 1
    /\ wBg[1].ctx.touched = {}
    /\ wBg[1].ctx.last_tool_result = 1
    /\ Len(wBg[1].ctx.history) = 1
    /\ wBg[1].ctx.history[1].result = 1
    /\ wCtx.touched = {"Memory"}
    /\ wCtx.last_tool_result = 3
    /\ Len(wCtx.history) = 1
    /\ wCtx.history[1].step_index = 3

\* ---------------------------------------------------------------------------
\* C34: each foreground tool step appends exactly one history entry
\* {step_index = current_step_index, tool, args} before its call goes out, with
\* the arguments the call is made with; a successful call attaches its value to
\* that entry and stores it as last_tool_result, a failed call leaves the entry
\* without a result; and the entries stand in execution order, one for each
\* foreground tool step that got as far as its call.
C34_Entry(i, args) ==
    [step_index |-> i, tool |-> wSteps[i].name, args |-> args, result |-> 0]

C34_PushedBeforeCall ==
    wPc = "call" =>
        /\ wCtx.current_step_index = wI
        /\ wCtx.history # <<>>
        /\ wCtx.history[Len(wCtx.history)] = C34_Entry(wI, wSent)

\* The indexes of the foreground tool steps among the first n steps, in order.
C34_Called(n) ==
    SelectSeq([i \in 1..n |-> i],
              LAMBDA i : wSteps[i].kind = "Tool" /\ ~wSteps[i].is_background)

C34_InExecutionOrder ==
    LET n == IF wPc \in {"call", "returned"} /\ wI <= Len(wSteps) THEN wI ELSE wI - 1
        called == C34_Called(IF n > Len(wSteps) THEN Len(wSteps) ELSE n)
        hist == [h \in 1..Len(wCtx.history) |-> wCtx.history[h].step_index]
    IN /\ wPc \in {"loop", "call"} => hist = called
       /\ wPc = "returned" =>
             \/ hist = called
             \/ called # <<>> /\ hist = SubSeq(called, 1, Len(called) - 1)
       /\ \A h \in 1..Len(hist) :
             wCtx.history[h].result = 0 => (h = Len(hist) /\ wPc \in {"call", "returned"})

C34_OnePush ==
    (wPc = "loop" /\ wPc' = "call") =>
        wCtx'.history = Append(wCtx.history, C34_Entry(wI, wSent'))

C34_ResultAttached ==
    (wPc = "call" /\ wPc' = "loop") =>
        LET n == Len(wCtx.history)
        IN /\ wCtx'.last_tool_result = wI
           /\ Len(wCtx'.history) = n
           /\ wCtx'.history[n] = [wCtx.history[n] EXCEPT !.result = wI]
           /\ \A h \in 1..(n - 1) : wCtx'.history[h] = wCtx.history[h]

C34_FailureLeavesEntry ==
    (wPc = "call" /\ wPc' = "returned") =>
        /\ wCtx' = wCtx
        /\ wCtx.history[Len(wCtx.history)].result = 0

C34_WorkflowHistory ==
    /\ []C34_PushedBeforeCall
    /\ []C34_InExecutionOrder
    /\ [][C34_OnePush /\ C34_ResultAttached /\ C34_FailureLeavesEntry]_vars

\* Two foreground tool steps with a Memory step between them: the first call
\* has returned its value, the second has failed and its entry has no result.
C34_Witness ==
    /\ wPc = "returned" /\ wI = 3
    /\ Len(wCtx.history) = 2
    /\ wCtx.history[1].step_index = 1 /\ wCtx.history[1].result = 1
    /\ wCtx.history[2].step_index = 3 /\ wCtx.history[2].result = 0
    /\ wCtx.last_tool_result = 1
    /\ wCtx.touched = {"Memory"}

\* ---------------------------------------------------------------------------
\* C35: when the MCP client factory fails while dispatch creates a session,
\* the event is dropped (no actor ever receives it), no sender is stored and
\* no actor is spawned, so the session table is as it was, without a live
\* sender for the session; the write lock is released, and a later dispatch
\* that finds no live sender for its session on its second look calls the
\* factory again.
C35_Dropped == {e \in smLog : smPath[e.id] = "dropped"}

C35_EventDropped ==
    \A e \in C35_Dropped : Completed(e) /\ TimesSent(e.id) = 0

C35_TableUnchanged ==
    \A d \in Dispatchers :
        (dPc[d] = "factory" /\ smPath'[dEv[d].id] = "dropped") =>
            /\ smSessions' = smSessions
            /\ smActors' = smActors
            /\ smClients' = smClients + 1
            /\ ~SenderLive(smSessions', smActors', SessionKey(dEv[d]))
            /\ dPc'[d] = "idle"
            /\ smWriter = d /\ smWriter' = 0

C35_CreationAttemptedAgain ==
    \A d \in Dispatchers :
        (dPc[d] = "slow" /\ dPc'[d] # "slow"
            /\ ~SenderLive(smSessions, smActors, SessionKey(dEv[d]))) =>
                dPc'[d] = "factory" /\ smWriter' = d

C35_FactoryFailureDropsEvent ==
    []C35_EventDropped /\ [][C35_TableUnchanged /\ C35_CreationAttemptedAgain]_vars

\* The factory failed for the first event of a session and an actor was
\* created for a later event of the same session.
C35_Witness ==
    \E e1 \in smLog : \E e2 \in smLog :
        /\ e1.id < e2.id
        /\ SessionKey(e1) = SessionKey(e2)
        /\ smPath[e1.id] = "dropped"
        /\ smPath[e2.id] = "create"
        /\ smActors # <<>>
        /\ smActors[1].sent[1] = e2.id
        /\ SessionKey(e1) \in DOMAIN smSessions

\* A step in which the task-aware client serves a cancel_task call.
C36_Call == tcLast'.n # tcLast.n /\ tcLast'.name = "cancel_task"

C36_RegistryUnchanged == tasks' = tasks /\ aborted' = aborted /\ counter' = counter

\* A missing or non-string task_id yields the error.
C36_BadIdIsError ==
    [][(C36_Call /\ tcLast'.args.task_id.kind # "string")
         => /\ tcLast'.result = CallErr(MissingTaskId)
            /\ C36_RegistryUnchanged
            /\ tcInner' = tcInner]_vars

\* A string naming no registered task yields a success result that says
\* not found.
C36_UnknownIsNotFound ==
    [][(C36_Call /\ tcLast'.args.task_id.kind = "string"
                 /\ tcLast'.args.task_id.val \notin DOMAIN tasks)
         => /\ tcLast'.result.kind = "Ok"
            /\ tcLast'.result.text = NotFoundText
            /\ C36_RegistryUnchanged
            /\ tcInner' = tcInner]_vars

\* A cancel_task call never reaches the inner client, and it changes the Task
\* Manager only by removing and aborting the registered task its string names.
C36_ChangesOnlyRegistered ==
    [][C36_Call
         => /\ tcInner' = tcInner
            /\ (~C36_RegistryUnchanged
                  => /\ tcLast'.args.task_id.kind = "string"
                     /\ tcLast'.args.task_id.val \in DOMAIN tasks
                     /\ tasks' = remove_task(tasks, tcLast'.args.task_id.val)
                     /\ aborted' = aborted \cup {tcLast'.args.task_id.val}
                     /\ tcLast'.result.text = CancelledText)]_vars

\* C36: cancel_task through the task-aware client changes the Task Manager
\* only when task_id is a string naming a registered task: a missing or
\* non-string task_id yields an error, an unknown id a success result with a
\* not-found message, and in both cases the registry is unchanged and the
\* inner client is not called.
C36_CancelThroughWrapper ==
    C36_BadIdIsError /\ C36_UnknownIsNotFound /\ C36_ChangesOnlyRegistered

\* A cancel_task call naming an unknown id was answered not found while a task
\* was registered and the inner client had served another tool.
C36_Witness ==
    /\ tcLast.name = "cancel_task"
    /\ tcLast.args.task_id.kind = "string"
    /\ tcLast.result.text = NotFoundText
    /\ tasks # <<>>
    /\ tcInner.name = "echo"

\* The positions of handle_input between the pending_execution check and the
\* call of the Decision Engine.
C37_BeforeEngine == {"perceive", "intent", "Act", "Ignore"}

\* The Decision Engine is entered only from an Act decision, the decision is
\* held only after Intent ran, and Intent runs only after Perception returned
\* Ok, all within the handling of one event that resumed no plan.
C37_EngineAfterRespond ==
    [][/\ (pc' = "decide" /\ pc # "decide") => (pc = "Act" /\ cur' = cur /\ resumedAt = 0)
       /\ (pc' \in IntentDecision /\ pc # pc') => (pc = "intent" /\ cur' = cur)
       /\ (pc' = "intent" /\ pc # "intent") => (pc = "perceive" /\ cur' = cur)]_vars

\* An event that resumed no plan gets its plan from the Decision Engine only.
C37_PlanOnlyFromEngine ==
    [][(steps' # steps /\ steps' # <<>> /\ resumedAt' = 0) => pc = "decide"]_vars

\* Before the engine is called the handling has no plan and no step.
C37_NothingBeforeEngine ==
    pc \in C37_BeforeEngine => (steps = <<>> /\ idx = 0 /\ tools = {} /\ resumedAt = 0)

\* An Ignore decision, and a failure of Perception or Intent, end the handling:
\* the actor is back at its inbox with no plan made or stored, no step run, no
\* task spawned and no output emitted.
C37_IgnoreOrFailureEnds ==
    [][/\ (pc = "Ignore" /\ pc' # pc) => (pc' = "idle" /\ lastEnd' = "returned")
       /\ (pc \in {"perceive", "intent"} /\ pc' \notin C37_BeforeEngine)
             => (pc' = "idle" /\ lastEnd' = "failed")
       /\ (pc \in C37_BeforeEngine /\ pc' = "idle")
             => /\ cur' = 0 /\ steps' = <<>> /\ idx' = 0
                /\ UNCHANGED <<pending, res, lastOut, tools, callVars, bgVars, bgReg>>]_vars

\* C37: for an event that is not a continuation, the Decision Engine is called
\* only after Perception has succeeded and Intent has returned RESPOND; when
\* Intent returns IGNORE, or Perception or Intent fails, no plan is made, no
\* step runs and no output is emitted.
C37_EngineOnlyAfterRespond ==
    /\ C37_EngineAfterRespond
    /\ C37_PlanOnlyFromEngine
    /\ []C37_NothingBeforeEngine
    /\ C37_IgnoreOrFailureEnds

\* Intent has returned Ignore for the second event, after the first event's
\* handling emitted an output.
C37_Witness ==
    /\ pc = "Ignore"
    /\ cur = 2
    /\ steps = <<>>
    /\ lastOut # NoOutput
    /\ lastOut.ref = 1

\* C38: when the elicitation of a foreground call on the persistent connection
\* and that of a long-running call on a dedicated connection of the same
\* session wait at the same time, a single InputEvent is taken as the answer
\* (Accept or Cancel) by at most one of them.
C38_OneTakerPerEvent ==
    \A c \in Conns : \A d \in cWith[c] :
        (cPc[c] \in {"accept", "cancel"} /\ cPc[d] \in {"accept", "cancel"})
            => cEv[c] # cEv[d]

\* The events sent to actor a's inbox, in the order of the sends.
C39_Sent(a) == smActors[a].sent
C39_Place(q, e) == {i \in 1..Len(q) : q[i] = e}

\* The inbox is FIFO: what the actor has received is the front of what was
\* sent to it, in the same order.
C39_InboxFifo ==
    \A a \in DOMAIN smActors :
        /\ Len(smHandled[a]) <= Len(C39_Sent(a))
        /\ smHandled[a] = SubSeq(C39_Sent(a), 1, Len(smHandled[a]))

\* An event whose dispatch had returned before another's began, both sent to
\* the same actor, stands before it in that actor's inbox.
C39_SentInDispatchOrder ==
    \A a \in DOMAIN smActors : \A j \in 1..Len(C39_Sent(a)) :
        \A e \in smBefore[C39_Sent(a)[j]] :
            \A i \in C39_Place(C39_Sent(a), e) : i < j

\* When the actor handles an event, every event of its inbox whose dispatch
\* had returned before this one's began has been handled already.
C39_NoOvertaking ==
    \A a \in DOMAIN smActors : \A j \in 1..Len(smHandled[a]) :
        \A e \in smBefore[smHandled[a][j]] :
            C39_Place(C39_Sent(a), e) # {}
                => \E i \in 1..(j - 1) : smHandled[a][i] = e

\* C39: events dispatched one after another (each dispatch returning before
\* the next starts) to the same live session are handled by its actor in
\* dispatch order: the inbox is FIFO and no event overtakes an earlier one of
\* the same session.
C39_HandledInDispatchOrder ==
    C39_InboxFifo /\ C39_SentInDispatchOrder /\ C39_NoOvertaking

\* An actor has handled three events dispatched one after another: the one
\* that created it and two that reached it through the stored sender.
C39_Witness ==
    \E a \in DOMAIN smActors :
        /\ Len(smHandled[a]) = 3
        /\ smHandled[a][1] \in smBefore[smHandled[a][2]]
        /\ smHandled[a][2] \in smBefore[smHandled[a][3]]
        /\ smPath[smHandled[a][1]] = "create"
        /\ smPath[smHandled[a][2]] = "fast"

====
